---- MODULE Spec2Model ----
(***************************************************************************)
(* Qxam: PDF question generator.  A model of the memory monitor's chunk    *)
(* size policy (memory_optimizer.py), the word-window chunker              *)
(* (pdf_processor.py), the question generator, exam builder and grader     *)
(* (question_generator.py) and the whole-document generation loop          *)
(* (main.py, gui.py).                                                      *)
(*                                                                         *)
(* Each subsystem has its own specification over the shared variables:     *)
(*   SpecChunks      one call of PDFProcessor.create_text_chunks           *)
(*   SpecChunksFair  the same, the consumer pulling to exhaustion          *)
(*   SpecRun         generate_questions_cli / the GUI worker               *)
(*   SpecExam        generate_multiple_choice_exam                         *)
(*   SpecGrade       grade_multiple_choice_exam                            *)
(*   SpecExtract     PDFProcessor.extract_text_from_pdf                    *)
(*   SpecStream      PDFProcessor.process_pdf_streaming                    *)
(*   SpecCleanup     MemoryOptimizer.cleanup_memory                        *)
(*   SpecGui         the main window and its worker threads (gui.py)       *)
(*   SpecGuiFair     the same, every started worker running on             *)
(*   SpecDialog      the exam dialog (gui.py)                              *)
(*   SpecCli         generate_questions_cli from load_model to finally     *)
(*   SpecCliFair     the same, the function running on                     *)
(* A specification leaves the other subsystems' variables at their idle    *)
(* values.                                                                 *)
(***************************************************************************)
EXTENDS Integers, Sequences, FiniteSets, Bags, TLC

VARIABLES
    \* ---- memory monitor / chunker (memory_optimizer.py, pdf_processor.py)
    system_memory_percent, \* psutil.virtual_memory().percent, as read by the call
    chunk_size,            \* PDFProcessor.chunk_size (the configured base)
    overlap,               \* PDFProcessor.overlap
    words,                 \* text.split(): the words, each given by its length
    optimal_chunk_size,    \* local of create_text_chunks
    start_idx,             \* local of create_text_chunks
    windows,               \* history: every window <<start_idx, end_idx>> taken
    chunks,                \* history: the windows that were yielded
    pc_chunks,             \* "start", "loop", "body", "done", "capped"
    \* ---- QuestionGenerator.generate_questions_from_text (question_generator.py)
    model_name,            \* QuestionGenerator.model_name
    sentences,             \* the sentences of the text, each given by its length
    sent_idx,              \* position of the for loop in sentences (1-based)
    result_left,           \* results of the current pipeline call still to visit
    questions,             \* local: the accepted question records
    used,                  \* local: the accepted question texts
    gen_num_questions,     \* parameter num_questions of the call
    dropped_duplicate,     \* history: the call rejected a text it had accepted
    errored,               \* history: the sentences whose pipeline call raised
    pc_gen,                \* "idle", "loop", "results", "returned"
    \* ---- generate_questions_cli / _generate_questions_thread (main.py, gui.py)
    num_questions,         \* the requested number of questions
    num_chunks,            \* records process_pdf_streaming has for the document
    chunk_count,           \* records pulled so far
    all_questions,         \* the accumulated question records
    pc_run,                \* "idle", "pull", "call", "done"
    \* ---- QuestionGenerator.generate_multiple_choice_exam
    exam_num_questions,    \* parameter num_questions
    num_options,           \* parameter num_options
    exam_chunks,           \* len(chunks)
    chunk_idx,             \* local chunk_idx
    chunk_parts,           \* chunk_text.split('.'), the parts of the current chunk
    q_idx,                 \* position of "for q in questions" (1-based)
    exam,                  \* local: the exam items built so far
    used_questions,        \* local: the question texts of the items
    pc_exam,               \* "idle", "while", "call", "for", "done"
    \* ---- QuestionGenerator.grade_multiple_choice_exam
    grade_exam,            \* parameter exam
    user_answers,          \* parameter user_answers
    grade_result,          \* the returned dict
    pc_grade,              \* "idle", "call", "done"
    \* ---- PDFProcessor.extract_text_from_pdf (pdf_processor.py)
    path_exists,           \* Path(pdf_path).exists()
    open_attempted,        \* history: fitz.open was called
    handle_open,           \* the document handle doc is open
    page_num,              \* local page_num (0 before the first page)
    text_content,          \* local text_content: the cleaned page texts
    extract_result,        \* the returned text, by its length, whether it
                           \* is all white space and its characters of the
                           \* stripped class, with len(text_content);
                           \* NoResult before and on error
    extract_raised,        \* the exception the call raised, NoError if none
    pc_extract,            \* "idle", "call", "check", "open", "pages",
                           \* "after", "returned", "raised"
    \* ---- PDFProcessor.process_pdf_streaming (pdf_processor.py)
    metadata,              \* local metadata: "unset", "empty" ({}) or "meta"
    stream_records,        \* history: the records yielded
    cleanups,              \* history: the numbers of records yielded when
                           \* cleanup_memory was invoked
    pulls,                 \* history: the number of pulls of the consumer
    stream_raised,         \* the exception that left the generator
    pc_stream,             \* "idle", "call", "created", "extracting",
                           \* "chunking", "yielded", "done", "raised"
    \* ---- MemoryOptimizer.cleanup_memory (memory_optimizer.py)
    force,                 \* parameter force
    max_memory_gb,         \* self.max_memory_gb, in tenths of a GB
    memory_info,           \* what get_memory_usage reads: process_memory_mb
                           \* and system_memory_percent
    cuda_available,        \* torch.cuda.is_available()
    gc_passes,             \* history: the calls of gc.collect()
    cache_releases,        \* history: the calls of torch.cuda.empty_cache()
    cleanup_raised,        \* the exception the call raised, NoError if none
    pc_cleanup,            \* "idle", "call", "check", "collect", "log",
                           \* "returned", "raised"
    \* ---- PDFQuestionGUI: the main thread and the workers (gui.py)
    current_pdf_path,      \* self.current_pdf_path is set
    processing,            \* self.processing
    model_var,             \* self.model_var: the model selected in the combo
    question_generator,    \* self.question_generator: NoGenerator (None) or
                           \* its model_name and whether its pipeline is set
    generated_by,          \* the worker that wrote self.generated_questions
                           \* last, 0 if none
    pc_worker,             \* per worker thread: "unstarted", "started",
                           \* "params", "ensure", "load", "stream", "pull",
                           \* "generate", "store", "except", "finally", "done"
    worker_model,          \* per worker: local model_name
    worker_pulls,          \* per worker: the records pulled so far
    worker_error,          \* per worker: the exception it has caught
    \* ---- PDFQuestionGUI: the exam dialog (gui.py)
    generated_questions_len, \* len(self.generated_questions)
    gui_exam,              \* self.exam
    current_exam_index,    \* self.current_exam_index
    user_exam_answers,     \* self.user_exam_answers
    exam_option_var,       \* self.exam_options_vars[-1].get(): the option
                           \* selected for the question on display, "" if none
    visible_button,        \* the button display_exam_question has packed:
                           \* "none", "next" or "submit"
    exam_result,           \* result of finish_exam, NoGrade before
    dialog_error,          \* the exception that left a callback
    pc_dialog,             \* "idle", "main", "exam", "result", "error"
    \* ---- generate_questions_cli (main.py)
    cli_num_questions,     \* num_questions
    cli_output_path,       \* whether output_path is given
    cli_chunk_count,       \* chunk_count
    cli_all_questions,     \* len(all_questions)
    cli_pipeline,          \* question_generator.pipeline is not None
    cli_unloads,           \* calls of question_generator.unload_model()
    cli_final_cleanups,    \* calls of cleanup_memory(force=True) at line 272
    cli_gc_passes,         \* garbage-collection passes of the forced cleanups
    cli_path,              \* how the try block was left, "none" before
    cli_pending,           \* the exception in flight, "none" if none
    pc_cli                 \* position in generate_questions_cli

chunkVars == <<system_memory_percent, chunk_size, overlap, words,
               optimal_chunk_size, start_idx, windows, chunks, pc_chunks>>

genVars == <<model_name, sentences, sent_idx, result_left, questions, used,
             gen_num_questions, dropped_duplicate, errored, pc_gen>>

runVars == <<num_questions, num_chunks, chunk_count, all_questions, pc_run>>

examVars == <<exam_num_questions, num_options, exam_chunks, chunk_idx,
              chunk_parts, q_idx, exam, used_questions, pc_exam>>

gradeVars == <<grade_exam, user_answers, grade_result, pc_grade>>

extractVars == <<path_exists, open_attempted, handle_open, page_num,
                 text_content, extract_result, extract_raised, pc_extract>>

streamVars == <<metadata, stream_records, cleanups, pulls, stream_raised,
                pc_stream>>

cleanupVars == <<force, max_memory_gb, memory_info, cuda_available, gc_passes,
                 cache_releases, cleanup_raised, pc_cleanup>>

guiVars == <<current_pdf_path, processing, model_var, question_generator,
             generated_by, pc_worker, worker_model, worker_pulls,
             worker_error>>

dialogVars == <<generated_questions_len, gui_exam, current_exam_index,
                user_exam_answers, exam_option_var, visible_button,
                exam_result, dialog_error, pc_dialog>>

cliVars == <<cli_num_questions, cli_output_path, cli_chunk_count,
             cli_all_questions, cli_pipeline, cli_unloads,
             cli_final_cleanups, cli_gc_passes, cli_path, cli_pending,
             pc_cli>>

\* The subsystems that no other subsystem of the model calls.
lateVars == <<cleanupVars, guiVars, dialogVars, cliVars>>

vars == <<chunkVars, genVars, runVars, examVars, gradeVars, extractVars,
          streamVars, lateVars>>

\* What the actions of one subsystem leave unchanged (the generator's actions
\* run inside a run or inside the exam builder).
otherVars == <<genVars, runVars, examVars, gradeVars>>
notChunkVars == <<otherVars, extractVars, streamVars, lateVars>>
notGenVars == <<chunkVars, runVars, examVars, gradeVars, extractVars,
                streamVars, lateVars>>
notRunVars == <<chunkVars, examVars, gradeVars, extractVars, streamVars,
                lateVars>>
notExamVars == <<chunkVars, runVars, gradeVars, extractVars, streamVars,
                 lateVars>>
notGradeVars == <<chunkVars, genVars, runVars, examVars, extractVars,
                  streamVars, lateVars>>
notExtractVars == <<chunkVars, otherVars, streamVars, lateVars>>
notStreamVars == <<chunkVars, otherVars, extractVars, lateVars>>
earlyVars == <<chunkVars, otherVars, extractVars, streamVars>>
notCleanupVars == <<earlyVars, guiVars, dialogVars, cliVars>>
notGuiVars == <<earlyVars, cleanupVars, dialogVars, cliVars>>
notDialogVars == <<earlyVars, cleanupVars, guiVars, cliVars>>
notCliVars == <<earlyVars, cleanupVars, guiVars, dialogVars>>

----------------------------------------------------------------------------
(* Bounds of the model *)

MaxWords == 5        \* longest text, in words
MaxChunkSize == 4    \* largest small configured chunk size
MaxOverlap == 3      \* largest small configured overlap
MaxBacktrack == 3    \* start_idx is followed down to -MaxBacktrack
MaxHistory == 6      \* the histories record the first MaxHistory windows

(* Program constants *)

DefaultChunkSize == 512   \* PDFProcessor.__init__ chunk_size
DefaultOverlap == 50      \* PDFProcessor.__init__ overlap
MinChunkChars == 50       \* a window is yielded when longer than this

\* A short word and a long word: two long words make a window of more than
\* MinChunkChars characters, short words alone do not.
WordLengths == {3, 30}
MemoryPercents == {70, 80, 85, 90, 95}
ChunkSizes == (1..MaxChunkSize) \cup {DefaultChunkSize}
Overlaps == (0..MaxOverlap) \cup {DefaultOverlap}

Min(a, b) == IF a < b THEN a ELSE b
Max(a, b) == IF a > b THEN a ELSE b

SeqsUpTo(S, n) == UNION {[1..k -> S] : k \in 0..n}

----------------------------------------------------------------------------
(* Idle values of the subsystems a specification does not run *)

ChunksIdle ==
    /\ system_memory_percent = 70
    /\ chunk_size = DefaultChunkSize
    /\ overlap = DefaultOverlap
    /\ words = <<>>
    /\ optimal_chunk_size = 0
    /\ start_idx = 0
    /\ windows = <<>>
    /\ chunks = <<>>
    /\ pc_chunks = "idle"

GenIdle ==
    /\ model_name = "t5-small"
    /\ sentences = <<>>
    /\ sent_idx = 1
    /\ result_left = 0
    /\ questions = <<>>
    /\ used = {}
    /\ gen_num_questions = 0
    /\ dropped_duplicate = FALSE
    /\ errored = {}
    /\ pc_gen = "idle"

RunIdle ==
    /\ num_questions = 0
    /\ num_chunks = 0
    /\ chunk_count = 0
    /\ all_questions = <<>>
    /\ pc_run = "idle"

ExamIdle ==
    /\ exam_num_questions = 0
    /\ num_options = 0
    /\ exam_chunks = 0
    /\ chunk_idx = 0
    /\ chunk_parts = <<>>
    /\ q_idx = 1
    /\ exam = <<>>
    /\ used_questions = {}
    /\ pc_exam = "idle"

GradeIdle ==
    /\ grade_exam = <<>>
    /\ user_answers = <<>>
    /\ grade_result = [score |-> [num |-> 0, den |-> 1], correct |-> 0,
                       total |-> 0, details |-> <<>>]
    /\ pc_grade = "idle"

\* The values of "nothing returned" and "nothing raised".
NoResult ==
    [returned |-> FALSE, length |-> 0, blank |-> TRUE, stripped_chars |-> 0,
     nonblank_pages |-> 0]
NoError == [type |-> "none", cause |-> "none"]

ExtractIdle ==
    /\ path_exists = TRUE
    /\ open_attempted = FALSE
    /\ handle_open = FALSE
    /\ page_num = 0
    /\ text_content = <<>>
    /\ extract_result = NoResult
    /\ extract_raised = NoError
    /\ pc_extract = "idle"

StreamIdle ==
    /\ metadata = "unset"
    /\ stream_records = <<>>
    /\ cleanups = {}
    /\ pulls = 0
    /\ stream_raised = NoError
    /\ pc_stream = "idle"

DefaultMaxMemoryGb == 35   \* max_memory_gb = 3.5, in tenths of a GB

\* A reading of the memory well below the limits.
QuietMemory == [process_memory_mb |-> 1000, system_memory_percent |-> 50]

CleanupIdle ==
    /\ force = FALSE
    /\ max_memory_gb = DefaultMaxMemoryGb
    /\ memory_info = QuietMemory
    /\ cuda_available = FALSE
    /\ gc_passes = 0
    /\ cache_releases = 0
    /\ cleanup_raised = NoError
    /\ pc_cleanup = "idle"

MaxWorkers == 2          \* most worker threads started
Workers == 1..MaxWorkers

\* self.question_generator = None
NoGenerator == [model_name |-> "None", pipeline |-> FALSE]

GuiIdle ==
    /\ current_pdf_path = FALSE
    /\ processing = FALSE
    /\ model_var = "t5-small"
    /\ question_generator = NoGenerator
    /\ generated_by = 0
    /\ pc_worker = [w \in Workers |-> "unstarted"]
    /\ worker_model = [w \in Workers |-> "unset"]
    /\ worker_pulls = [w \in Workers |-> 0]
    /\ worker_error = [w \in Workers |-> "none"]

\* No exam has been graded.
NoGrade ==
    [score |-> [num |-> 0, den |-> 1], correct |-> 0, total |-> 0,
     details |-> <<>>]

DialogIdle ==
    /\ generated_questions_len = 0
    /\ gui_exam = <<>>
    /\ current_exam_index = 0
    /\ user_exam_answers = <<>>
    /\ exam_option_var = ""
    /\ visible_button = "none"
    /\ exam_result = NoGrade
    /\ dialog_error = "none"
    /\ pc_dialog = "idle"

CliIdle ==
    /\ cli_num_questions = 0
    /\ cli_output_path = FALSE
    /\ cli_chunk_count = 0
    /\ cli_all_questions = 0
    /\ cli_pipeline = FALSE
    /\ cli_unloads = 0
    /\ cli_final_cleanups = 0
    /\ cli_gc_passes = 0
    /\ cli_path = "none"
    /\ cli_pending = "none"
    /\ pc_cli = "idle"

LateIdle == CleanupIdle /\ GuiIdle /\ DialogIdle /\ CliIdle

----------------------------------------------------------------------------
(* memory_optimizer.py *)

\* MemoryOptimizer.get_optimal_chunk_size: the test "> 80" comes first, so the
\* branch "> 90" is never taken.
get_optimal_chunk_size(pct, base_chunk_size) ==
    IF pct > 80 THEN base_chunk_size \div 2
    ELSE IF pct > 90 THEN base_chunk_size \div 4
    ELSE base_chunk_size

----------------------------------------------------------------------------
(* pdf_processor.py: create_text_chunks *)

\* Python's normalisation of a slice bound i for a list of n elements.
PyBound(i, n) == IF i < 0 THEN Max(i + n, 0) ELSE Min(i, n)

\* The positions (1-based) of s that the Python slice s[a:b] selects.
PySlicePositions(s, a, b) ==
    {p \in 1..Len(s) : PyBound(a, Len(s)) < p /\ p <= PyBound(b, Len(s))}

\* s[a:b]
PySlice(s, a, b) ==
    LET lo == PyBound(a, Len(s))
        hi == PyBound(b, Len(s))
    IN IF lo < hi THEN SubSeq(s, lo + 1, hi) ELSE <<>>

RECURSIVE SumSeq(_)
SumSeq(s) == IF s = <<>> THEN 0 ELSE Head(s) + SumSeq(Tail(s))

\* len(' '.join(chunk_words).strip()): the words hold no white space, so the
\* joined text has nothing to strip.
JoinedLength(chunk_words) ==
    IF chunk_words = <<>> THEN 0
    ELSE SumSeq(chunk_words) + (Len(chunk_words) - 1)

Record(history, x) ==
    IF Len(history) < MaxHistory THEN Append(history, x) ELSE history

total_words == Len(words)

\* A faulty variant of line 137: the slice leaves out the word before end_idx.
PySlice_short(s, a, b) ==
    LET lo == PyBound(a, Len(s))
        hi == PyBound(b, Len(s)) - 1
    IN IF lo < hi THEN SubSeq(s, lo + 1, hi) ELSE <<>>

\* Line 137: chunk_words = words[start_idx:end_idx]
chunk_words_of(s, a, b) == PySlice(s, a, b)

\* A faulty variant of line 141: every window is yielded.
has_content_always(chunk_words) == TRUE

\* Line 141: len(chunk_text.strip()) > 50
has_content(chunk_words) == JoinedLength(chunk_words) > MinChunkChars

\* A faulty variant of line 150: the overlap is forgotten.
next_start_idx_no_overlap(end_idx) == end_idx

\* Line 150: start_idx = end_idx - self.overlap
next_start_idx(end_idx) == end_idx - overlap

InitChunks ==
    /\ system_memory_percent \in MemoryPercents
    /\ chunk_size \in ChunkSizes
    /\ overlap \in Overlaps
    /\ words \in SeqsUpTo(WordLengths, MaxWords)
    /\ optimal_chunk_size = 0
    /\ start_idx = 0
    /\ windows = <<>>
    /\ chunks = <<>>
    /\ pc_chunks = "start"
    /\ GenIdle
    /\ RunIdle
    /\ ExamIdle
    /\ GradeIdle
    /\ ExtractIdle
    /\ StreamIdle
    /\ LateIdle

\* Lines 120-130, on the variables of the chunker.
ChunksStartBody ==
    /\ pc_chunks = "start"
    /\ optimal_chunk_size' =
           get_optimal_chunk_size(system_memory_percent, chunk_size)
    /\ start_idx' = 0
    /\ pc_chunks' = "loop"
    /\ UNCHANGED <<system_memory_percent, chunk_size, overlap, words,
                   windows, chunks>>

\* Lines 120-130: the first pull runs the body up to the loop.
ChunksStart ==
    /\ ChunksStartBody
    /\ UNCHANGED notChunkVars

\* Line 132: the loop test fails (only an empty word list gets here).
ChunksLoopExit ==
    /\ pc_chunks = "loop"
    /\ ~(start_idx < total_words)
    /\ pc_chunks' = "done"
    /\ UNCHANGED <<system_memory_percent, chunk_size, overlap, words,
                   optimal_chunk_size, start_idx, windows, chunks>>
    /\ UNCHANGED notChunkVars

\* Line 132: the loop test holds.
ChunksLoopEnter ==
    /\ pc_chunks = "loop"
    /\ start_idx < total_words
    /\ pc_chunks' = "body"
    /\ UNCHANGED <<system_memory_percent, chunk_size, overlap, words,
                   optimal_chunk_size, start_idx, windows, chunks>>
    /\ UNCHANGED notChunkVars

\* Lines 133-150, on the variables of the chunker.
ChunksWindowBody ==
    /\ pc_chunks = "body"
    /\ LET end_idx == Min(start_idx + optimal_chunk_size, total_words)
           chunk_words == chunk_words_of(words, start_idx, end_idx)
           w == <<start_idx, end_idx>>
       IN /\ windows' = Record(windows, w)
          /\ chunks' = IF has_content(chunk_words)
                       THEN Record(chunks, w)
                       ELSE chunks
          /\ IF end_idx >= total_words
             THEN /\ pc_chunks' = "done"
                  /\ start_idx' = start_idx
             ELSE IF next_start_idx(end_idx) < -MaxBacktrack
             THEN /\ pc_chunks' = "capped"
                  /\ start_idx' = start_idx
             ELSE /\ pc_chunks' = "loop"
                  /\ start_idx' = next_start_idx(end_idx)
    /\ UNCHANGED <<system_memory_percent, chunk_size, overlap, words,
                   optimal_chunk_size>>

\* Lines 133-150: the body of the loop, the yield included (the consumer
\* resumes the generator).
ChunksWindow ==
    /\ ChunksWindowBody
    /\ UNCHANGED notChunkVars

NextChunks ==
    \/ ChunksStart
    \/ ChunksLoopExit
    \/ ChunksLoopEnter
    \/ ChunksWindow

SpecChunks == InitChunks /\ [][NextChunks]_vars

\* The consumer pulls the generator to exhaustion.
SpecChunksFair == SpecChunks /\ WF_vars(NextChunks)

----------------------------------------------------------------------------
(* Claims about the chunk size policy and the chunker *)

\* The policy of the specification's section 4.1.
RecommendedChunkSize(pct, base) ==
    IF pct <= 80 THEN base
    ELSE IF pct <= 90 THEN base \div 2
    ELSE base \div 4

\* C1: get_optimal_chunk_size returns the base unchanged at a utilization of
\* at most 80%, half of it in (80%, 90%] and a quarter of it above 90%.
C1_ChunkSizePolicy ==
    pc_chunks # "start" =>
        optimal_chunk_size =
            RecommendedChunkSize(system_memory_percent, chunk_size)

\* C2: for every base chunk size >= 1 and every utilization the recommended
\* chunk size is at least 1.
C2_ChunkSizeAtLeastOne ==
    (pc_chunks # "start" /\ chunk_size >= 1) => optimal_chunk_size >= 1

\* C3: pulling create_text_chunks to exhaustion terminates, for every text,
\* configured chunk size, overlap and memory state (a run that leaves the
\* modelled range of start_idx counts as ended).
C3_ChunksTerminate == <>(pc_chunks \in {"done", "capped"})

\* The word positions (1-based) of a window <<start_idx, end_idx>>.
WindowPositions(w) == PySlicePositions(words, w[1], w[2])

\* Consecutive windows of h share exactly overlap words, each starting
\* overlap words before the end of the one before it; the last pair of h is
\* held to this only when lastToo.
OverlapExactly(h, lastToo) ==
    \A i \in 1..(Len(h) - 1) :
        (lastToo \/ i + 1 < Len(h)) =>
            /\ h[i + 1][1] = h[i][2] - overlap
            /\ Cardinality(WindowPositions(h[i]) \cap WindowPositions(h[i + 1]))
                   = overlap

\* The windows of h cover every word position.
CoversAllWords(h) ==
    UNION {WindowPositions(h[i]) : i \in 1..Len(h)} = 1..total_words

WindowIsLong(w) == JoinedLength(PySlice(words, w[1], w[2])) > MinChunkChars

\* C4 as claimed: with overlap < window size, consecutive emitted chunks share
\* exactly overlap words (except possibly the final chunk) and the emitted
\* chunks cover every word position without a gap.
C4_EmittedChunksOverlapAndCover ==
    (pc_chunks = "done" /\ overlap < optimal_chunk_size) =>
        /\ OverlapExactly(chunks, FALSE)
        /\ CoversAllWords(chunks)

\* C4 as amended: with 0 <= overlap < window size, consecutive windows taken
\* by the loop share exactly overlap words and the windows cover every word
\* position; the emitted chunks are the windows of more than 50 characters,
\* in order, so they overlap and cover as claimed when no window is dropped.
C4_WindowsOverlapAndCover ==
    (pc_chunks = "done" /\ overlap < optimal_chunk_size) =>
        /\ OverlapExactly(windows, TRUE)
        /\ CoversAllWords(windows)
        /\ chunks = SelectSeq(windows, WindowIsLong)
        /\ (chunks = windows =>
                OverlapExactly(chunks, TRUE) /\ CoversAllWords(chunks))

\* A finished run with a positive overlap, three or more windows, one of them
\* dropped and one of them emitted.
C4_Witness ==
    /\ pc_chunks = "done"
    /\ 0 < overlap
    /\ overlap < optimal_chunk_size
    /\ Len(windows) >= 3
    /\ chunks # <<>>
    /\ Len(chunks) < Len(windows)

\* C14: every chunk create_text_chunks yields is longer than 50 characters; a
\* window of 50 characters or fewer is dropped, nothing is emitted in its
\* place and the iteration goes on with the next window (while the histories
\* hold every window, the chunks are the long windows, in order).
C14_OnlyLongWindowsYielded ==
    /\ \A i \in 1..Len(chunks) : WindowIsLong(chunks[i])
    /\ Len(windows) < MaxHistory => chunks = SelectSeq(windows, WindowIsLong)

\* A finished run in which a window was dropped and a later one was yielded.
C14_Witness ==
    /\ pc_chunks = "done"
    /\ \E i, j \in 1..Len(windows) :
          /\ i < j
          /\ ~WindowIsLong(windows[i])
          /\ WindowIsLong(windows[j])
          /\ chunks = <<windows[j]>>

\* C15 as claimed: a text of W words, 1 <= W <= window size, yields exactly
\* one chunk, which holds all W words.
C15_OneChunkOfAllWords ==
    (pc_chunks = "done" /\ 1 <= total_words
        /\ total_words <= optimal_chunk_size) =>
        chunks = << <<0, total_words>> >>

\* C15 as amended: for 1 <= W <= window size the loop takes the one window of
\* all W words and at most that window is yielded; when the iteration ends it
\* was yielded if the joined text is longer than 50 characters, and nothing
\* was yielded otherwise.
C15_OneWindowYieldedWhenLong ==
    (pc_chunks \notin {"start", "idle"} /\ 1 <= total_words
        /\ total_words <= optimal_chunk_size) =>
        /\ \A i \in 1..Len(windows) : windows[i] = <<0, total_words>>
        /\ Len(windows) <= 1
        /\ \A i \in 1..Len(chunks) : chunks[i] = <<0, total_words>>
        /\ pc_chunks = "done" =>
              /\ Len(windows) = 1
              /\ chunks = IF JoinedLength(words) > MinChunkChars
                          THEN << <<0, total_words>> >>
                          ELSE <<>>

\* A text of several words, shorter than the default window of 512 words, was
\* yielded as one chunk.
C15_Witness ==
    /\ pc_chunks = "done"
    /\ chunk_size = DefaultChunkSize
    /\ total_words >= 2
    /\ total_words <= optimal_chunk_size
    /\ chunks = << <<0, total_words>> >>

----------------------------------------------------------------------------
(* question_generator.py: generate_questions_from_text *)

MaxSentences == 2        \* most sentences of one chunk
MinSentenceChars == 30   \* a sentence shorter than this is skipped
NumReturnSequences == 3  \* num_return_sequences of the pipeline call
MinQuestionChars == 10   \* len(question) > 10
MaxQuestionChars == 200  \* len(question) < 200

\* A sentence that is skipped and one that is used.
SentenceLengths == {20, 40}

ModelNames ==
    {"mrm8488/t5-base-finetuned-question-generation-ap", "t5-small"}

\* The strings the external generator returns (its 'generated_text'): a
\* question that passes both validations, the same surrounded by white space,
\* a question in lower case (rejected by the English validation), a question
\* with an English stem (rejected by the Spanish validation), a fragment that
\* is too short and the empty string.
QA == "Cual es el tema?"
QAPadded == "  Cual es el tema?  "
QLower == "que dice la frase?"
QWhat == "What is the topic?"
QShort == "Tema?"
GeneratedTexts == {QA, QAPadded, QLower, QWhat, QShort, ""}

\* r['generated_text'].strip()
Strip(raw) == IF raw = QAPadded THEN QA ELSE raw

\* len(question)
TextLength(question) ==
    CASE question = "" -> 0
      [] question = QShort -> 5
      [] question = QA -> 16
      [] question = QLower -> 18
      [] question = QWhat -> 18
      [] question = QAPadded -> 20

HasQuestionMark(question) == question \in {QA, QAPadded, QLower, QWhat, QShort}
HasInvertedMark(question) == FALSE
StartsUpper(question) == question \in {QA, QWhat, QShort}
StartsWithEnglishStem(question) == question = QWhat
StartsWithContextOrAnswer(question) == FALSE

\* Line 208: the prompt language follows the model name.
Lang == IF model_name = "mrm8488/t5-base-finetuned-question-generation-ap"
        THEN "es" ELSE "en"

\* A faulty variant of the validation: the test "question not in used" is
\* left out.
Accepts_ignoring_used(question, usedTexts) ==
    /\ question # ""
    /\ TextLength(question) > MinQuestionChars
    /\ TextLength(question) < MaxQuestionChars
    /\ IF Lang = "en"
       THEN /\ HasQuestionMark(question)
            /\ StartsUpper(question)
            /\ ~HasInvertedMark(question)
            /\ ~StartsWithContextOrAnswer(question)
       ELSE /\ (HasInvertedMark(question) \/ HasQuestionMark(question))
            /\ ~StartsWithEnglishStem(question)

\* Lines 227-232 (English) and 241-248 (Spanish): the validation of one
\* generated question.
Accepts(question, usedTexts) ==
    /\ question # ""
    /\ question \notin usedTexts
    /\ TextLength(question) > MinQuestionChars
    /\ TextLength(question) < MaxQuestionChars
    /\ IF Lang = "en"
       THEN /\ HasQuestionMark(question)
            /\ StartsUpper(question)
            /\ ~HasInvertedMark(question)
            /\ ~StartsWithContextOrAnswer(question)
       ELSE /\ (HasInvertedMark(question) \/ HasQuestionMark(question))
            /\ ~StartsWithEnglishStem(question)

QuestionRecord(question) ==
    [question |-> question, type |-> "QG", model |-> model_name]

\* The caller's call: lines 196-200.
GenCall(text_sentences, n) ==
    /\ sentences' = text_sentences
    /\ sent_idx' = 1
    /\ result_left' = 0
    /\ questions' = <<>>
    /\ used' = {}
    /\ gen_num_questions' = n
    /\ dropped_duplicate' = FALSE
    /\ errored' = {}
    /\ pc_gen' = "loop"
    /\ UNCHANGED model_name

\* The caller has taken the returned list: the locals of the call are gone.
GenDone ==
    /\ sentences' = <<>>
    /\ sent_idx' = 1
    /\ result_left' = 0
    /\ questions' = <<>>
    /\ used' = {}
    /\ gen_num_questions' = 0
    /\ dropped_duplicate' = FALSE
    /\ errored' = {}
    /\ pc_gen' = "idle"
    /\ UNCHANGED model_name

\* Lines 201-204: a sentence of fewer than 30 characters is skipped.
GenSkipShort ==
    /\ pc_gen = "loop"
    /\ sent_idx <= Len(sentences)
    /\ sentences[sent_idx] < MinSentenceChars
    /\ sent_idx' = sent_idx + 1
    /\ UNCHANGED <<model_name, sentences, result_left, questions, used,
                   gen_num_questions, dropped_duplicate, errored, pc_gen>>
    /\ UNCHANGED notGenVars

\* Lines 205-206 and 257-258: the requested count is reached at the head of
\* an iteration, or the sentences are exhausted; the call returns questions
\* and its other locals are gone.
GenReturn ==
    /\ pc_gen = "loop"
    /\ \/ sent_idx > Len(sentences)
       \/ /\ sent_idx <= Len(sentences)
          /\ sentences[sent_idx] >= MinSentenceChars
          /\ Len(questions) >= gen_num_questions
    /\ pc_gen' = "returned"
    /\ sentences' = <<>>
    /\ sent_idx' = 1
    /\ used' = {}
    /\ errored' = {}
    /\ UNCHANGED <<model_name, result_left, questions, gen_num_questions,
                   dropped_duplicate>>
    /\ UNCHANGED notGenVars

\* Lines 214-222: the pipeline call returns between one and
\* num_return_sequences results (their texts are drawn as the inner loop
\* visits them).
GenPipelineCall ==
    /\ pc_gen = "loop"
    /\ sent_idx <= Len(sentences)
    /\ sentences[sent_idx] >= MinSentenceChars
    /\ Len(questions) < gen_num_questions
    /\ result_left' \in 1..NumReturnSequences
    /\ pc_gen' = "results"
    /\ UNCHANGED <<model_name, sentences, sent_idx, questions, used,
                   gen_num_questions, dropped_duplicate, errored>>
    /\ UNCHANGED notGenVars

\* A faulty variant of lines 255-256: no handler, the error leaves the call.
after_generation_error_propagates == "raised"

\* Lines 255-256: "except Exception" logs the error; the for loop goes on.
after_generation_error == "loop"

\* Lines 214-222, 255-256: the pipeline call raises; the error is logged and
\* the loop goes on with the next sentence.
GenPipelineError ==
    /\ pc_gen = "loop"
    /\ sent_idx <= Len(sentences)
    /\ sentences[sent_idx] >= MinSentenceChars
    /\ Len(questions) < gen_num_questions
    /\ errored' = errored \cup {sent_idx}
    /\ sent_idx' = sent_idx + 1
    /\ pc_gen' = after_generation_error
    /\ UNCHANGED <<model_name, sentences, result_left, questions, used,
                   gen_num_questions, dropped_duplicate>>
    /\ UNCHANGED notGenVars

\* Lines 223-254: one iteration of "for r in result".
GenResult ==
    /\ pc_gen = "results"
    /\ \E raw \in GeneratedTexts :
          LET question == Strip(raw)
          IN /\ IF Accepts(question, used)
                THEN /\ questions' = Append(questions, QuestionRecord(question))
                     /\ used' = used \cup {question}
                ELSE UNCHANGED <<questions, used>>
             /\ dropped_duplicate' = (dropped_duplicate \/ question \in used)
    /\ result_left' = result_left - 1
    /\ IF result_left = 1
       THEN pc_gen' = "loop" /\ sent_idx' = sent_idx + 1
       ELSE pc_gen' = "results" /\ sent_idx' = sent_idx
    /\ UNCHANGED <<model_name, sentences, gen_num_questions, errored>>
    /\ UNCHANGED notGenVars

----------------------------------------------------------------------------
(* main.py: generate_questions_cli; gui.py: _generate_questions_thread *)

MaxNumQuestions == 3     \* largest small requested number of questions
MaxDocChunks == 2        \* most records of one document
DefaultNumQuestions == 10
MaxQuestionsPerChunk == 3
QuestionsPerChunkDivisor == 5

NumQuestionsChoices == (0..MaxNumQuestions) \cup {DefaultNumQuestions}
ChunkTexts == SeqsUpTo(SentenceLengths, MaxSentences)

\* s[:n]
Take(s, n) == SubSeq(s, 1, Min(n, Len(s)))

\* min(3, max(1, num_questions // 5))
questions_per_chunk ==
    Min(MaxQuestionsPerChunk,
        Max(1, num_questions \div QuestionsPerChunkDivisor))

InitRun ==
    /\ ChunksIdle
    /\ ExamIdle
    /\ GradeIdle
    /\ ExtractIdle
    /\ StreamIdle
    /\ LateIdle
    /\ model_name \in ModelNames
    /\ sentences = <<>>
    /\ sent_idx = 1
    /\ result_left = 0
    /\ questions = <<>>
    /\ used = {}
    /\ gen_num_questions = 0
    /\ dropped_duplicate = FALSE
    /\ errored = {}
    /\ pc_gen = "idle"
    /\ num_questions \in NumQuestionsChoices
    /\ num_chunks \in 0..MaxDocChunks
    /\ chunk_count = 0
    /\ all_questions = <<>>
    /\ pc_run = "pull"

\* main.py 206-218, gui.py 411-422: the next record is pulled and
\* generate_questions_from_text is called on its text. A record is read once,
\* so its text is drawn when it is pulled.
RunPull ==
    /\ pc_run = "pull"
    /\ chunk_count < num_chunks
    /\ chunk_count' = chunk_count + 1
    /\ \E chunk_text \in ChunkTexts : GenCall(chunk_text, questions_per_chunk)
    /\ pc_run' = "call"
    /\ UNCHANGED <<num_questions, num_chunks, all_questions>>
    /\ UNCHANGED notRunVars

\* main.py 206, gui.py 411: process_pdf_streaming is exhausted.
RunExhausted ==
    /\ pc_run = "pull"
    /\ chunk_count = num_chunks
    /\ pc_run' = "done"
    /\ UNCHANGED <<num_questions, num_chunks, chunk_count, all_questions>>
    /\ UNCHANGED genVars
    /\ UNCHANGED notRunVars

\* A faulty variant of main.py 227: no break, the loop goes on.
after_limit_continues == "pull"

\* main.py 227, gui.py 429: break leaves the loop over the records.
after_limit == "done"

\* main.py 220-227, gui.py 424-429: the chunk's questions are appended and
\* the total is limited.
RunCollect ==
    /\ pc_run = "call"
    /\ pc_gen = "returned"
    /\ LET extended == all_questions \o questions
       IN IF Len(extended) >= num_questions
          THEN /\ all_questions' = Take(extended, num_questions)
               /\ pc_run' = after_limit
          ELSE /\ all_questions' = extended
               /\ pc_run' = "pull"
    /\ GenDone
    /\ UNCHANGED <<num_questions, num_chunks, chunk_count>>
    /\ UNCHANGED notRunVars

NextRun ==
    \/ RunPull
    \/ RunExhausted
    \/ RunCollect
    \/ GenSkipShort
    \/ GenReturn
    \/ GenPipelineCall
    \/ GenPipelineError
    \/ GenResult

SpecRun == InitRun /\ [][NextRun]_vars

----------------------------------------------------------------------------
(* Claims about generate_questions_from_text and the generation run *)

\* C8: generate_questions_from_text(text, n) returns at most n records.
C8_AtMostRequested ==
    pc_gen = "returned" => Len(questions) <= gen_num_questions

NoDuplicateTexts(records) ==
    \A i, j \in 1..Len(records) :
        records[i].question = records[j].question => i = j

\* C9: the list one call of generate_questions_from_text builds and returns
\* never holds two records with the same question text.
C9_CallHasNoDuplicates == NoDuplicateTexts(questions)

\* A call has returned two questions or more after the generator repeated a
\* text the call had accepted.
C9_Witness ==
    /\ pc_gen = "returned"
    /\ Len(questions) >= 2
    /\ dropped_duplicate

\* C19: an error raised by one invocation of the generator is not propagated:
\* the step that meets it keeps the accepted questions and the sentences,
\* adds nothing for that sentence and goes on with the next sentence.
C19_ErrorSkipsOneSentence ==
    [][(errored' # errored /\ errored' # {}) =>
          /\ errored' = errored \cup {sent_idx}
          /\ questions' = questions
          /\ used' = used
          /\ sentences' = sentences
          /\ sent_idx' = sent_idx + 1
          /\ pc_gen' = "loop"]_vars

\* The call for the first sentence raised and a later sentence gave an
\* accepted question.
C19_Witness ==
    /\ 1 \in errored
    /\ questions # <<>>

\* C10: the final question list of a whole-document run holds no two records
\* with the same question text.
C10_RunHasNoDuplicates ==
    pc_run = "done" => NoDuplicateTexts(all_questions)

\* A step pulls a record of process_pdf_streaming, and calls
\* generate_questions_from_text on it.
PullsRecord == chunk_count' # chunk_count
CallsGenerator == pc_gen = "idle" /\ pc_gen' # "idle"

\* C29: the final question list never has more than num_questions entries,
\* and once the accumulated count has reached num_questions no further record
\* is pulled from process_pdf_streaming and no further generator call is
\* made.
C29_NoPullOnceReached ==
    /\ [](pc_run = "done" => Len(all_questions) <= num_questions)
    /\ [][Len(all_questions) >= num_questions =>
             ~PullsRecord /\ ~CallsGenerator]_vars

\* C29 as the code has it: the count is compared with num_questions after
\* the questions of a record are appended, so for num_questions >= 1 nothing
\* is pulled or called once the count has reached num_questions, and for
\* num_questions = 0 one record is pulled and one call is made before the
\* loop is left with an empty list.
C29_NoPullOnceCompared ==
    /\ [](pc_run = "done" => Len(all_questions) <= num_questions)
    /\ [](num_questions = 0 => chunk_count <= 1)
    /\ [][(Len(all_questions) >= num_questions
              /\ (num_questions >= 1 \/ chunk_count >= 1)) =>
             ~PullsRecord /\ ~CallsGenerator]_vars

\* The run has stopped with the requested two questions or more, cut from a
\* longer list, while a record of the document was still to come.
C29_Witness ==
    /\ pc_run = "done"
    /\ num_questions >= 2
    /\ Len(all_questions) = num_questions
    /\ chunk_count < num_chunks

----------------------------------------------------------------------------
(* question_generator.py: generate_multiple_choice_exam *)

MaxExamQuestions == 2    \* largest requested number of exam questions
MaxOptions == 4          \* largest requested number of options
MinAnswerChars == 10     \* a part of the chunk is a sentence when longer

\* The parts between the full stops of a chunk: four sentences, a part that is
\* too short to be a sentence, and a sentence that reads like the placeholder.
SA == "La primera frase del texto"
SB == "La segunda frase del texto"
SC == "La tercera frase del texto"
SD == "La cuarta frase del texto"
ShortPart == "n 1"
NoAnswer == "Respuesta no disponible"
PlaceholderDistractor == "Opcion incorrecta"   \* "Opción incorrecta"

\* len(s.strip())
PartLength(part) ==
    CASE part = ShortPart -> 3
      [] part = PlaceholderDistractor -> 17
      [] part = NoAnswer -> 23
      [] part = SD -> 25
      [] OTHER -> 26

\* chunk_text.split('.') of the chunks the exam is built from.
PartTexts ==
    { <<ShortPart, ShortPart>>,
      <<SA>>,
      <<SA, SB>>,
      <<SA, ShortPart, SB, SC>>,
      <<SA, SB, SC, SD>>,
      <<SA, SA, SB>>,
      <<PlaceholderDistractor, PlaceholderDistractor, PlaceholderDistractor>> }

\* The requested numbers of options: the answer and one distractor or more.
OptionCounts == 2..MaxOptions

IsSentence(part) == PartLength(part) > MinAnswerChars

\* Line 125: the sentences of the context.
AnswerSentences(parts) == SelectSeq(parts, IsSentence)

\* Lines 126-127: difflib's closest sentence if one is close enough, else the
\* first sentence, else the fixed text. Which sentence is closest is left
\* open: any sentence of the context may be returned.
extract_answer_from_question(question, parts) ==
    IF AnswerSentences(parts) = <<>>
    THEN {NoAnswer}
    ELSE {AnswerSentences(parts)[i] : i \in 1..Len(AnswerSentences(parts))}

\* The elements of s at the positions I, as a bag.
BagOfPositions(s, I) ==
    [e \in {s[i] : i \in I} |-> Cardinality({i \in I : s[i] = e})]

\* n copies of e, as a bag.
Copies(e, n) == IF n > 0 THEN [x \in {e} |-> n] ELSE EmptyBag

\* Line 134: the sentences of the context other than the correct answer.
OtherSentences(correct, parts) ==
    LET NotCorrect(part) == IsSentence(part) /\ part # correct
    IN SelectSeq(parts, NotCorrect)

\* Lines 134-136: the possible results of _generate_distractors: a random
\* sample of min(n, len(sentences)) of the other sentences, or n placeholders
\* when there is no other sentence. The order of the options is shuffled
\* (line 108), so the options are kept as a bag.
generate_distractors(correct, parts, n) ==
    LET others == OtherSentences(correct, parts)
    IN IF others # <<>>
       THEN {BagOfPositions(others, I) :
               I \in {J \in SUBSET (1..Len(others)) :
                         Cardinality(J) = Min(n, Len(others))}}
       ELSE {Copies(PlaceholderDistractor, n)}

InitExam ==
    /\ ChunksIdle
    /\ RunIdle
    /\ GradeIdle
    /\ ExtractIdle
    /\ StreamIdle
    /\ LateIdle
    /\ model_name \in ModelNames
    /\ sentences = <<>>
    /\ sent_idx = 1
    /\ result_left = 0
    /\ questions = <<>>
    /\ used = {}
    /\ gen_num_questions = 0
    /\ dropped_duplicate = FALSE
    /\ errored = {}
    /\ pc_gen = "idle"
    /\ exam_num_questions \in 0..MaxExamQuestions
    /\ num_options \in OptionCounts
    /\ exam_chunks \in 0..MaxDocChunks
    /\ chunk_idx = 0
    /\ chunk_parts = <<>>
    /\ q_idx = 1
    /\ exam = <<>>
    /\ used_questions = {}
    /\ pc_exam = "while"

\* Lines 97-99: the loop test holds; one question is asked for the chunk. A
\* chunk is visited once, so its text is drawn when it is visited.
ExamCall ==
    /\ pc_exam = "while"
    /\ Len(exam) < exam_num_questions
    /\ chunk_idx < exam_chunks
    /\ \E chunk_sentences \in ChunkTexts : GenCall(chunk_sentences, 1)
    /\ pc_exam' = "call"
    /\ UNCHANGED <<exam_num_questions, num_options, exam_chunks, chunk_idx,
                   chunk_parts, q_idx, exam, used_questions>>
    /\ UNCHANGED notExamVars

\* Line 100: the call has returned and the for loop starts. The parts of the
\* chunk between full stops are first read by the loop (lines 104-105), and
\* are drawn here.
ExamQuestions ==
    /\ pc_exam = "call"
    /\ pc_gen = "returned"
    /\ chunk_parts' \in PartTexts
    /\ q_idx' = 1
    /\ pc_exam' = "for"
    /\ dropped_duplicate' = FALSE
    /\ UNCHANGED <<exam_num_questions, num_options, exam_chunks, chunk_idx,
                   exam, used_questions>>
    /\ UNCHANGED <<model_name, sentences, sent_idx, result_left, questions,
                   used, gen_num_questions, errored, pc_gen>>
    /\ UNCHANGED notExamVars

\* Lines 97, 118: the loop test fails; the exam is returned.
ExamReturn ==
    /\ pc_exam = "while"
    /\ ~(Len(exam) < exam_num_questions /\ chunk_idx < exam_chunks)
    /\ pc_exam' = "done"
    /\ UNCHANGED <<exam_num_questions, num_options, exam_chunks, chunk_idx,
                   chunk_parts, q_idx, exam, used_questions>>
    /\ UNCHANGED genVars
    /\ UNCHANGED notExamVars

\* A faulty variant of line 102: no question counts as used.
in_used_questions_never(question_text, seen) == FALSE

\* Line 102: question_text in used_questions
in_used_questions(question_text, seen) == question_text \in seen

\* Lines 100-103: a question that is already in the exam is passed over.
ExamSkipUsed ==
    /\ pc_exam = "for"
    /\ pc_gen = "returned"
    /\ q_idx <= Len(questions)
    /\ in_used_questions(questions[q_idx].question, used_questions)
    /\ q_idx' = q_idx + 1
    /\ UNCHANGED <<exam_num_questions, num_options, exam_chunks, chunk_idx,
                   chunk_parts, exam, used_questions, pc_exam>>
    /\ UNCHANGED genVars
    /\ UNCHANGED notExamVars

\* Lines 100-117: an item is built for a new question; the for loop is left
\* when the exam is complete.
ExamAddItem ==
    /\ pc_exam = "for"
    /\ pc_gen = "returned"
    /\ q_idx <= Len(questions)
    /\ ~in_used_questions(questions[q_idx].question, used_questions)
    /\ LET question_text == questions[q_idx].question
       IN \E correct_answer \in
                 extract_answer_from_question(question_text, chunk_parts) :
          \E distractors \in
                 generate_distractors(correct_answer, chunk_parts,
                                      num_options - 1) :
             /\ exam' = Append(exam,
                    [question |-> question_text,
                     options |-> distractors (+) SetToBag({correct_answer}),
                     answer |-> correct_answer])
             /\ used_questions' = used_questions \cup {question_text}
    /\ IF Len(exam) + 1 >= exam_num_questions
       THEN /\ chunk_idx' = chunk_idx + 1
            /\ pc_exam' = "while"
            /\ q_idx' = 1
            /\ chunk_parts' = <<>>
            /\ GenDone
       ELSE /\ chunk_idx' = chunk_idx
            /\ pc_exam' = "for"
            /\ q_idx' = q_idx + 1
            /\ UNCHANGED chunk_parts
            /\ UNCHANGED genVars
    /\ UNCHANGED <<exam_num_questions, num_options, exam_chunks>>
    /\ UNCHANGED notExamVars

\* Lines 100, 117: the questions of the chunk are exhausted.
ExamNextChunk ==
    /\ pc_exam = "for"
    /\ pc_gen = "returned"
    /\ q_idx > Len(questions)
    /\ chunk_idx' = chunk_idx + 1
    /\ pc_exam' = "while"
    /\ q_idx' = 1
    /\ chunk_parts' = <<>>
    /\ GenDone
    /\ UNCHANGED <<exam_num_questions, num_options, exam_chunks, exam,
                   used_questions>>
    /\ UNCHANGED notExamVars

NextExam ==
    \/ ExamCall
    \/ ExamReturn
    \/ ExamQuestions
    \/ ExamSkipUsed
    \/ ExamAddItem
    \/ ExamNextChunk
    \/ GenSkipShort
    \/ GenReturn
    \/ GenPipelineCall
    \/ GenPipelineError
    \/ GenResult

SpecExam == InitExam /\ [][NextExam]_vars

----------------------------------------------------------------------------
(* Claims about the exam builder *)

\* C5: every item of the returned exam has exactly num_options options, the
\* correct answer plus num_options - 1 distractors, also when the chunk has
\* fewer other sentences than that.
C5_ExactlyNumOptions ==
    \A i \in 1..Len(exam) : BagCardinality(exam[i].options) = num_options

\* C6: in every exam item the recorded answer occurs exactly once among the
\* options.
C6_AnswerExactlyOnce ==
    \A i \in 1..Len(exam) : CopiesIn(exam[i].answer, exam[i].options) = 1

\* C20: each chunk contributes at most one item to the exam, so the exam has
\* at most min(num_questions, number of chunks) items.
C20_AtMostOneItemPerChunk ==
    Len(exam) <= Min(exam_num_questions, exam_chunks)

\* C21: the exam never holds two items with the same question text: a question
\* that an earlier chunk has put into the exam is passed over when a later
\* chunk produces it again.
C21_NoRepeatedQuestionText ==
    \A i, j \in 1..Len(exam) :
        exam[i].question = exam[j].question => i = j

\* The first question of a later chunk has been passed over: it is the text of
\* the only item of the exam, and the answer of that item cannot have been
\* taken from the parts of this chunk, so the item is an earlier chunk's.
C21_Witness ==
    /\ pc_exam = "for"
    /\ chunk_idx >= 1
    /\ q_idx = 2
    /\ Len(questions) >= 1
    /\ Len(exam) = 1
    /\ exam[1].question = questions[1].question
    /\ exam[1].answer \notin
           extract_answer_from_question(questions[1].question, chunk_parts)

----------------------------------------------------------------------------
(* question_generator.py: grade_multiple_choice_exam *)

MaxGradeItems == 3       \* most items of a graded exam
MaxUserAnswers == 3      \* most user answers

\* The items of the graded exams: grading reads 'question' and 'answer'.
GradeItems ==
    {[question |-> q, options |-> SetToBag({SA, SB}), answer |-> a] :
        q \in {QA, QLower}, a \in {SA, SB}}

UserAnswerTexts == {SA, SB, SC}

\* A faulty variant of line 66: the answer is compared with the question text.
is_correct_against_question(q, user_ans) == user_ans = q.question

\* A faulty variant of line 66: every answer counts as correct.
is_correct_always(q, user_ans) == TRUE

\* Line 66: is_correct = (user_ans == q['answer'])
is_correct(q, user_ans) == user_ans = q.answer

\* Lines 63-74: the loop over zip(exam, user_answers), from position i on,
\* with the count and the details so far.
RECURSIVE GradeLoop(_, _, _, _, _)
GradeLoop(exam_items, answers, i, correct, details) ==
    IF i > Len(exam_items) \/ i > Len(answers)
    THEN [correct |-> correct, details |-> details]
    ELSE GradeLoop(exam_items, answers, i + 1,
             IF is_correct(exam_items[i], answers[i])
             THEN correct + 1 ELSE correct,
             Append(details,
                 [question |-> exam_items[i].question,
                  selected |-> answers[i],
                  correct_answer |-> exam_items[i].answer,
                  is_correct |-> is_correct(exam_items[i], answers[i])]))

\* Lines 75-82. The score correct / total * 100 is kept as an exact fraction.
grade_multiple_choice_exam(exam_items, answers) ==
    LET loop == GradeLoop(exam_items, answers, 1, 0, <<>>)
        total == Len(exam_items)
    IN [score |-> IF total > 0
                  THEN [num |-> loop.correct * 100, den |-> total]
                  ELSE [num |-> 0, den |-> 1],
        correct |-> loop.correct,
        total |-> total,
        details |-> loop.details]

InitGrade ==
    /\ ChunksIdle
    /\ GenIdle
    /\ RunIdle
    /\ ExamIdle
    /\ ExtractIdle
    /\ StreamIdle
    /\ LateIdle
    /\ grade_exam \in SeqsUpTo(GradeItems, MaxGradeItems)
    /\ user_answers \in SeqsUpTo(UserAnswerTexts, MaxUserAnswers)
    /\ grade_result = [score |-> [num |-> 0, den |-> 1], correct |-> 0,
                       total |-> 0, details |-> <<>>]
    /\ pc_grade = "call"

\* Lines 54-82: the call.
Grade ==
    /\ pc_grade = "call"
    /\ grade_result' = grade_multiple_choice_exam(grade_exam, user_answers)
    /\ pc_grade' = "done"
    /\ UNCHANGED <<grade_exam, user_answers>>
    /\ UNCHANGED notGradeVars

NextGrade == Grade

SpecGrade == InitGrade /\ [][NextGrade]_vars

----------------------------------------------------------------------------
(* Claims about grading *)

\* The positions at which the user's answer equals the recorded answer.
MatchingPositions ==
    {i \in 1..Min(Len(grade_exam), Len(user_answers)) :
        user_answers[i] = grade_exam[i].answer}

\* C7: for an exam of N items of which exactly k answers, paired by position,
\* equal the recorded correct answer, grading reports correct = k, total = N
\* and score = 100 * k / N, and score = 0 when N = 0.
C7_GradeIsCorrect ==
    pc_grade = "done" =>
        LET N == Len(grade_exam)
            k == Cardinality(MatchingPositions)
        IN /\ grade_result.correct = k
           /\ grade_result.total = N
           /\ grade_result.score.den > 0
           /\ N > 0 => grade_result.score.num * N
                           = 100 * k * grade_result.score.den
           /\ N = 0 => grade_result.score.num = 0

\* An exam of three items graded with one right and one wrong answer or more.
C7_Witness ==
    /\ pc_grade = "done"
    /\ Len(grade_exam) >= 3
    /\ Len(user_answers) = Len(grade_exam)
    /\ grade_result.correct >= 1
    /\ grade_result.correct < grade_result.total

\* C30: for lists of any, possibly different, lengths: total is len(exam), the
\* details have min(len(exam), len(user_answers)) entries in the order of the
\* exam, items without a user answer count as not correct, surplus user
\* answers are ignored, 0 <= correct <= total and 0 <= score <= 100.
C30_GradesUnequalLengths ==
    pc_grade = "done" =>
        LET n == Min(Len(grade_exam), Len(user_answers))
            d == grade_result.details
        IN /\ grade_result.total = Len(grade_exam)
           /\ Len(d) = n
           /\ \A i \in 1..n :
                 /\ d[i].question = grade_exam[i].question
                 /\ d[i].correct_answer = grade_exam[i].answer
                 /\ d[i].selected = user_answers[i]
                 /\ d[i].is_correct = (user_answers[i] = grade_exam[i].answer)
           /\ grade_result.correct =
                 Cardinality({i \in 1..n : d[i].is_correct})
           /\ grade_result =
                 grade_multiple_choice_exam(grade_exam,
                                            SubSeq(user_answers, 1, n))
           /\ 0 <= grade_result.correct
           /\ grade_result.correct <= grade_result.total
           /\ 0 <= grade_result.score.num
           /\ grade_result.score.num <= 100 * grade_result.score.den

\* Graded: an exam with fewer answers than items, of which one is right.
C30_Witness ==
    /\ pc_grade = "done"
    /\ Len(grade_exam) = 3
    /\ Len(user_answers) = 1
    /\ grade_result.correct = 1
    /\ Len(grade_result.details) = 1

----------------------------------------------------------------------------
(* memory_optimizer.py: get_memory_usage and its callers;
   pdf_processor.py: extract_text_from_pdf *)

MaxPages == 10           \* most pages of a document
CleanupEveryPages == 10  \* page_num % 10 == 0

\* MemoryOptimizer.get_memory_usage reads psutil.Process().memory_info() and
\* psutil.virtual_memory() with no handler around them: the call returns a
\* snapshot or the error psutil raised leaves it.
MonitorReads == {"snapshot", "raises"}

\* check_memory_limit, cleanup_memory and the wrapper of monitor_memory_usage
\* call get_memory_usage with no handler either: they return, or the error of
\* a read leaves them.
MonitorCalls == {"returns", "raises"}

PsutilError == [type |-> "psutil.Error", cause |-> "none"]
FileNotFound == [type |-> "FileNotFoundError", cause |-> "none"]
OpenFailure == [type |-> "FileDataError", cause |-> "none"]
PageFailure == [type |-> "RuntimeError", cause |-> "none"]

\* Characters are kept by their code points.
Newline == 10
Space == 32
MinLineChars == 10       \* a line is kept when it is longer

\* Line 92: the class [\x00-\x08\x0b\x0c\x0e-\x1f\x7f-\xff]
Stripped(c) == c \in (0..8) \cup {11, 12} \cup (14..31) \cup (127..255)

\* str.isspace, and \s of a str pattern, for the code points below 256.
IsSpace(c) == c \in {9, 10, 11, 12, 13, 28, 29, 30, 31, 32, 133, 160}

\* str.strip()
RECURSIVE strip_spaces(_)
strip_spaces(s) ==
    IF s = <<>> THEN <<>>
    ELSE IF IsSpace(Head(s)) THEN strip_spaces(Tail(s))
    ELSE IF IsSpace(s[Len(s)]) THEN strip_spaces(SubSeq(s, 1, Len(s) - 1))
    ELSE s

\* Line 92: re.sub of the class by ''.
remove_control(s) ==
    LET Kept(c) == ~Stripped(c)
    IN SelectSeq(s, Kept)

\* Line 95: re.sub(r'\s+', ' ', text): every run of white space becomes one
\* space.
RECURSIVE collapse_spaces(_)
collapse_spaces(s) ==
    IF s = <<>> THEN <<>>
    ELSE IF ~IsSpace(Head(s)) THEN <<Head(s)>> \o collapse_spaces(Tail(s))
    ELSE IF Len(s) > 1 /\ IsSpace(s[2]) THEN collapse_spaces(Tail(s))
    ELSE <<Space>> \o collapse_spaces(Tail(s))

\* str.split(sep) for a separator of one character.
RECURSIVE Split(_, _)
Split(s, sep) ==
    IF \A i \in 1..Len(s) : s[i] # sep THEN <<s>>
    ELSE LET i == CHOOSE k \in 1..Len(s) :
                      /\ s[k] = sep
                      /\ \A j \in 1..(k - 1) : s[j] # sep
         IN <<SubSeq(s, 1, i - 1)>> \o Split(SubSeq(s, i + 1, Len(s)), sep)

\* sep.join(parts)
RECURSIVE Join(_, _)
Join(parts, sep) ==
    IF parts = <<>> THEN <<>>
    ELSE IF Len(parts) = 1 THEN parts[1]
    ELSE parts[1] \o sep \o Join(Tail(parts), sep)

\* Lines 92-106: _clean_text.
clean_text(text) ==
    LET lines == Split(collapse_spaces(remove_control(text)), Newline)
        stripped == [i \in 1..Len(lines) |-> strip_spaces(lines[i])]
        LongEnough(line) == Len(line) > MinLineChars
    IN Join(SelectSeq(stripped, LongEnough), <<Newline>>)

\* The texts page.get_text() gives in the model:
\*   " \n "                                  only white space
\*   "Page 3"                                a short text
\*   "\x01\xe9"                              characters of the stripped class
\*   "El a\xf1o\x01 fue\n\n largo\t y fr\xedo"   a longer text of two lines
BlankPage == <<32, 10, 32>>
ShortPage == <<80, 97, 103, 101, 32, 51>>
ControlPage == <<1, 233>>
LongPage ==
    <<69, 108, 32, 97, 241, 111, 1, 32, 102, 117, 101, 10, 10, 32, 108, 97,
      114, 103, 111, 9, 32, 121, 32, 102, 114, 237, 111>>

PageTexts == {BlankPage, ShortPage, ControlPage, LongPage}

\* What page.get_text() does for a page: it gives a text or raises.
PageOutcomes ==
    {[raises |-> FALSE, text |-> t] : t \in PageTexts}
        \cup {[raises |-> TRUE, text |-> <<>>]}

\* Line 72: "\n\n".join(text_content)
full_text(contents) == Join(contents, <<Newline, Newline>>)

\* len("\n\n".join(text_content))
full_text_length(contents) == Len(full_text(contents))

\* The joined text has words when it is not white space only.
HasWords(contents) ==
    \E p \in 1..Len(full_text(contents)) : ~IsSpace(full_text(contents)[p])

\* The characters of the stripped class in a text.
StrippedIn(text) == Cardinality({p \in 1..Len(text) : Stripped(text[p])})

\* A faulty variant of line 54: the document is closed by a call at the end
\* of the block, which an error skips.
closed_at_end_only(raising) == raising

\* Line 54: "with fitz.open(pdf_path) as doc" closes doc when the block is
\* left, by its end or by an error; the value is that of handle_open then.
with_exit(raising) == FALSE

\* Lines 77-79: the handler logs the error and raises it again.
reraise(e) == e

InitExtract ==
    /\ ChunksIdle
    /\ GenIdle
    /\ RunIdle
    /\ ExamIdle
    /\ GradeIdle
    /\ StreamIdle
    /\ LateIdle
    /\ path_exists \in BOOLEAN
    /\ open_attempted = FALSE
    /\ handle_open = FALSE
    /\ page_num = 0
    /\ text_content = <<>>
    /\ extract_result = NoResult
    /\ extract_raised = NoError
    /\ pc_extract = "call"

\* memory_optimizer.py 109-112: the wrapper of the decorated method reads the
\* memory before it runs the body.
ExtractEnter ==
    /\ pc_extract = "call"
    /\ \E read \in MonitorReads :
          IF read = "snapshot"
          THEN /\ pc_extract' = "check"
               /\ UNCHANGED extract_raised
          ELSE /\ pc_extract' = "raised"
               /\ extract_raised' = PsutilError
    /\ UNCHANGED <<path_exists, open_attempted, handle_open, page_num,
                   text_content, extract_result>>
    /\ UNCHANGED notExtractVars

\* Lines 47-51.
ExtractPathCheck ==
    /\ pc_extract = "check"
    /\ IF path_exists
       THEN /\ pc_extract' = "open"
            /\ UNCHANGED extract_raised
       ELSE /\ pc_extract' = "raised"
            /\ extract_raised' = FileNotFound
    /\ UNCHANGED <<path_exists, open_attempted, handle_open, page_num,
                   text_content, extract_result>>
    /\ UNCHANGED notExtractVars

\* Lines 54-55: fitz.open gives the document or raises.
ExtractOpen ==
    /\ pc_extract = "open"
    /\ open_attempted' = TRUE
    /\ \E opens \in BOOLEAN :
          IF opens
          THEN /\ handle_open' = TRUE
               /\ pc_extract' = "pages"
               /\ UNCHANGED extract_raised
          ELSE /\ handle_open' = FALSE
               /\ pc_extract' = "raised"
               /\ extract_raised' = reraise(OpenFailure)
    /\ UNCHANGED <<path_exists, page_num, text_content, extract_result>>
    /\ UNCHANGED notExtractVars

\* Lines 57-70: one page. An error of get_text, or of the cleanup after
\* every 10th page, leaves the with block and is raised again by the handler.
ExtractPage ==
    /\ pc_extract = "pages"
    /\ page_num < MaxPages
    /\ page_num' = page_num + 1
    /\ \E page_text \in PageOutcomes, cleanup \in MonitorCalls :
          LET appended == IF strip_spaces(page_text.text) = <<>>
                          THEN text_content
                          ELSE Append(text_content,
                                      clean_text(page_text.text))
          IN IF page_text.raises
             THEN /\ text_content' = text_content
                  /\ handle_open' = with_exit(TRUE)
                  /\ extract_raised' = reraise(PageFailure)
                  /\ pc_extract' = "raised"
             ELSE IF (page_num + 1) % CleanupEveryPages = 0
                      /\ cleanup = "raises"
             THEN /\ text_content' = appended
                  /\ handle_open' = with_exit(TRUE)
                  /\ extract_raised' = reraise(PsutilError)
                  /\ pc_extract' = "raised"
             ELSE /\ text_content' = appended
                  /\ UNCHANGED <<handle_open, extract_raised, pc_extract>>
    /\ UNCHANGED <<path_exists, open_attempted, extract_result>>
    /\ UNCHANGED notExtractVars

\* Lines 57, 72-75: the pages are exhausted, the with block ends and the body
\* returns full_text to the wrapper.
ExtractBodyReturn ==
    /\ pc_extract = "pages"
    /\ handle_open' = with_exit(FALSE)
    /\ pc_extract' = "after"
    /\ UNCHANGED <<path_exists, open_attempted, page_num, text_content,
                   extract_result, extract_raised>>
    /\ UNCHANGED notExtractVars

\* memory_optimizer.py 117-127: the wrapper reads the memory again, checks the
\* limit and returns the result of the body; the locals of the body are gone.
ExtractReturn ==
    /\ pc_extract = "after"
    /\ \E monitor \in MonitorCalls :
          IF monitor = "returns"
          THEN /\ extract_result' =
                      [returned |-> TRUE,
                       length |-> full_text_length(text_content),
                       blank |-> ~HasWords(text_content),
                       stripped_chars |->
                           StrippedIn(full_text(text_content)),
                       nonblank_pages |-> Len(text_content)]
               /\ pc_extract' = "returned"
               /\ UNCHANGED extract_raised
          ELSE /\ extract_raised' = PsutilError
               /\ pc_extract' = "raised"
               /\ UNCHANGED extract_result
    /\ text_content' = <<>>
    /\ page_num' = 0
    /\ UNCHANGED <<path_exists, open_attempted, handle_open>>
    /\ UNCHANGED notExtractVars

NextExtract ==
    \/ ExtractEnter
    \/ ExtractPathCheck
    \/ ExtractOpen
    \/ ExtractPage
    \/ ExtractBodyReturn
    \/ ExtractReturn

SpecExtract == InitExtract /\ [][NextExtract]_vars

----------------------------------------------------------------------------
(* Claims about extract_text_from_pdf *)

\* C16: extract_text_from_pdf fails with a not-found error when the path does
\* not exist, without attempting to open the document, and with an
\* ExtractionError that wraps the underlying cause when the document cannot be
\* opened or parsed; in both cases no text is returned.
C16_NotFoundOrExtractionError ==
    pc_extract = "raised" =>
        /\ extract_result = NoResult
        /\ ~path_exists =>
              /\ extract_raised = FileNotFound
              /\ ~open_attempted
        /\ path_exists =>
              /\ extract_raised.type = "ExtractionError"
              /\ extract_raised.cause \in {OpenFailure.type, PageFailure.type}

\* C22: for every document with at least one page that has extractable
\* (non-blank) text, extract_text_from_pdf returns a non-empty string, and the
\* returned string has no character of the stripped control ranges.
C22_ExtractableGivesCleanText ==
    (pc_extract = "returned" /\ extract_result.nonblank_pages >= 1) =>
        /\ extract_result.length > 0
        /\ extract_result.stripped_chars = 0

\* C22, the part that holds: the returned string has no character of the
\* stripped control ranges.
C22_NoStrippedCharacter ==
    pc_extract = "returned" => extract_result.stripped_chars = 0

\* C17: the document handle is closed on every exit path of
\* extract_text_from_pdf: it is open only while the pages are read, and no
\* handle is open once the call has returned or raised.
C17_HandleClosedOnExit ==
    /\ handle_open => pc_extract = "pages"
    /\ pc_extract \in {"after", "returned", "raised"} => ~handle_open

\* The call raised from the cleanup after the 10th page, the document open.
C17_Witness ==
    /\ pc_extract = "raised"
    /\ open_attempted
    /\ page_num = CleanupEveryPages
    /\ extract_raised = PsutilError

----------------------------------------------------------------------------
(* pdf_processor.py: process_pdf_streaming *)

CleanupEveryRecords == 5   \* i % 5 == 0

\* A faulty variant of line 197: the numbering starts at 1.
enumerate_from_one(n) == n + 1

\* Line 197: the index enumerate(...) gives to the chunk that n chunks
\* precede.
enumerate_index(n) == n

\* Lines 164-177: get_pdf_metadata gives the metadata, or {} on any failure.
get_pdf_metadata(exists) == IF exists THEN {"meta", "empty"} ELSE {"empty"}

\* Lines 198-203: the record of chunk number n (counted from 0), for the
\* chunk of the window w.
stream_record(n, w) ==
    [chunk_id |-> enumerate_index(n),
     text |-> w,
     chunk_length |-> JoinedLength(PySlice(words, w[1], w[2]))]

\* Line 206: the test after the record whose chunk_id is i.
cleanup_due(i) == i % CleanupEveryRecords = 0

\* A faulty variant of line 194: the error of the extraction is swallowed and
\* the generator goes on to the chunks.
after_extract_error_continues == "chunking"

\* Line 194: no handler around extract_text_from_pdf; its error leaves the
\* generator.
after_extract_error == "raised"

InitStream ==
    /\ ChunksIdle
    /\ GenIdle
    /\ RunIdle
    /\ ExamIdle
    /\ GradeIdle
    /\ LateIdle
    /\ path_exists \in BOOLEAN
    /\ open_attempted = FALSE
    /\ handle_open = FALSE
    /\ page_num = 0
    /\ text_content = <<>>
    /\ extract_result = NoResult
    /\ extract_raised = NoError
    /\ pc_extract = "idle"
    /\ metadata = "unset"
    /\ stream_records = <<>>
    /\ cleanups = {}
    /\ pulls = 0
    /\ stream_raised = NoError
    /\ pc_stream = "call"

\* memory_optimizer.py 109-127: the call of the decorated generator function
\* runs the wrapper, which reads the memory and returns the generator; no
\* line of the body has run.
StreamCall ==
    /\ pc_stream = "call"
    /\ \E monitor \in MonitorCalls :
          IF monitor = "returns"
          THEN /\ pc_stream' = "created"
               /\ UNCHANGED stream_raised
          ELSE /\ pc_stream' = "raised"
               /\ stream_raised' = PsutilError
    /\ UNCHANGED <<metadata, stream_records, cleanups, pulls>>
    /\ UNCHANGED notStreamVars

\* Lines 190-194: the first pull runs get_pdf_metadata and calls
\* extract_text_from_pdf.
StreamFirstPull ==
    /\ pc_stream = "created"
    /\ pulls' = pulls + 1
    /\ metadata' \in get_pdf_metadata(path_exists)
    /\ pc_extract' = "call"
    /\ pc_stream' = "extracting"
    /\ UNCHANGED <<stream_records, cleanups, stream_raised>>
    /\ UNCHANGED <<path_exists, open_attempted, handle_open, page_num,
                   text_content, extract_result, extract_raised>>
    /\ UNCHANGED <<chunkVars, otherVars, lateVars>>

\* Line 194: extract_text_from_pdf raised.
StreamExtractRaised ==
    /\ pc_stream = "extracting"
    /\ pc_extract = "raised"
    /\ stream_raised' = extract_raised
    /\ pc_stream' = after_extract_error
    /\ UNCHANGED <<metadata, stream_records, cleanups, pulls>>
    /\ UNCHANGED notStreamVars

\* Lines 194-197: extract_text_from_pdf returned full_text and
\* create_text_chunks(full_text) is called: the wrapper reads the memory and
\* returns the chunk generator. The chunker is the first to read the words of
\* the text, the configuration of the processor and the memory utilization,
\* which are drawn here; full_text is now the text of the chunker.
StreamChunksCall ==
    /\ pc_stream = "extracting"
    /\ pc_extract = "returned"
    /\ \E monitor \in MonitorCalls :
          IF monitor = "returns"
          THEN /\ pc_stream' = "chunking"
               /\ system_memory_percent' \in MemoryPercents
               /\ chunk_size' \in ChunkSizes
               /\ overlap' \in Overlaps
               /\ words' \in IF extract_result.blank
                              THEN {<<>>}
                              ELSE SeqsUpTo(WordLengths, MaxWords) \ {<<>>}
               /\ pc_chunks' = "start"
               /\ UNCHANGED stream_raised
          ELSE /\ pc_stream' = "raised"
               /\ stream_raised' = PsutilError
               /\ UNCHANGED <<system_memory_percent, chunk_size, overlap,
                              words, pc_chunks>>
    /\ extract_result' = NoResult
    /\ UNCHANGED <<optimal_chunk_size, start_idx, windows, chunks>>
    /\ UNCHANGED <<path_exists, open_attempted, handle_open, page_num,
                   text_content, extract_raised, pc_extract>>
    /\ UNCHANGED <<metadata, stream_records, cleanups, pulls>>
    /\ UNCHANGED <<otherVars, lateVars>>

\* pdf_processor.py 120-130 inside the pull: get_optimal_chunk_size reads the
\* memory (memory_optimizer.py 163).
StreamChunksStart ==
    /\ pc_stream = "chunking"
    /\ pc_chunks = "start"
    /\ \E read \in MonitorReads :
          IF read = "snapshot"
          THEN /\ ChunksStartBody
               /\ UNCHANGED <<stream_raised, pc_stream>>
          ELSE /\ pc_stream' = "raised"
               /\ stream_raised' = PsutilError
               /\ pc_chunks' = "raised"
               /\ UNCHANGED <<system_memory_percent, chunk_size, overlap,
                              words, optimal_chunk_size, start_idx, windows,
                              chunks>>
    /\ UNCHANGED <<metadata, stream_records, cleanups, pulls>>
    /\ UNCHANGED <<otherVars, extractVars, lateVars>>

\* Line 132 inside the pull.
StreamLoopEnter ==
    /\ pc_stream = "chunking"
    /\ ChunksLoopEnter

\* Line 132 inside the pull: the loop of the chunker ends.
StreamLoopExit ==
    /\ pc_stream = "chunking"
    /\ ChunksLoopExit

\* Lines 133-150 and 197-203: the chunker takes a window; when it yields a
\* chunk, the record of the chunk is yielded to the consumer. The run is
\* followed as long as the histories hold every record.
StreamWindow ==
    /\ pc_stream = "chunking"
    /\ Len(stream_records) < MaxHistory
    /\ ChunksWindowBody
    /\ IF Len(chunks') > Len(chunks)
       THEN /\ stream_records' =
                   Append(stream_records,
                          stream_record(Len(stream_records),
                                        chunks'[Len(chunks')]))
            /\ pc_stream' = "yielded"
       ELSE UNCHANGED <<stream_records, pc_stream>>
    /\ UNCHANGED <<metadata, cleanups, pulls, stream_raised>>
    /\ UNCHANGED <<otherVars, extractVars, lateVars>>

\* Lines 205-207: the consumer pulls again; the generator resumes after the
\* yield and invokes cleanup_memory when i % 5 == 0.
StreamResume ==
    /\ pc_stream = "yielded"
    /\ pulls' = pulls + 1
    /\ LET i == stream_records[Len(stream_records)].chunk_id
       IN IF cleanup_due(i)
          THEN /\ cleanups' = cleanups \cup {Len(stream_records)}
               /\ \E cleanup \in MonitorCalls :
                     IF cleanup = "returns"
                     THEN /\ pc_stream' = "chunking"
                          /\ UNCHANGED stream_raised
                     ELSE /\ pc_stream' = "raised"
                          /\ stream_raised' = PsutilError
          ELSE /\ pc_stream' = "chunking"
               /\ UNCHANGED <<cleanups, stream_raised>>
    /\ UNCHANGED <<metadata, stream_records>>
    /\ UNCHANGED notStreamVars

\* Line 197: the chunk generator is exhausted; so is the record generator.
StreamExhausted ==
    /\ pc_stream = "chunking"
    /\ pc_chunks = "done"
    /\ pc_stream' = "done"
    /\ UNCHANGED <<metadata, stream_records, cleanups, pulls, stream_raised>>
    /\ UNCHANGED notStreamVars

NextStream ==
    \/ StreamCall
    \/ StreamFirstPull
    \/ ExtractEnter
    \/ ExtractPathCheck
    \/ ExtractOpen
    \/ ExtractPage
    \/ ExtractBodyReturn
    \/ ExtractReturn
    \/ StreamExtractRaised
    \/ StreamChunksCall
    \/ StreamChunksStart
    \/ StreamLoopEnter
    \/ StreamLoopExit
    \/ StreamWindow
    \/ StreamResume
    \/ StreamExhausted

SpecStream == InitStream /\ [][NextStream]_vars

----------------------------------------------------------------------------
(* Claims about process_pdf_streaming and the memory monitor *)

\* C11: process_pdf_streaming yields exactly one record per chunk that
\* create_text_chunks emits, in the same order, with chunk_id 0, 1, 2, ...
\* and chunk_length the length of the record's text.
C11_OneRecordPerChunk ==
    /\ Len(stream_records) = Len(chunks)
    /\ \A k \in 1..Len(stream_records) :
          /\ stream_records[k].chunk_id = k - 1
          /\ stream_records[k].text = chunks[k]
          /\ stream_records[k].chunk_length =
                 JoinedLength(PySlice(words, chunks[k][1], chunks[k][2]))

\* The consumer pulled a document of three records or more to its end.
C11_Witness ==
    /\ pc_stream = "done"
    /\ Len(stream_records) >= 3

\* C12: cleanup_memory is invoked after every 5th yielded record (the 5th,
\* 10th, ...) and after no other record: for every record the generator was
\* resumed after, the cleanup was invoked exactly when the number of the
\* record is a multiple of 5.
C12_CleanupAfterEveryFifth ==
    \A n \in 1..Len(stream_records) :
        (n < Len(stream_records) \/ pc_stream # "yielded") =>
            (n \in cleanups <=> n % CleanupEveryRecords = 0)

\* C13: metadata retrieval and the extraction of the whole document are
\* complete before the first record is yielded; they run at the first pull;
\* when the extraction fails no record is ever yielded and its error leaves
\* the generator at that pull.
C13_ExtractionBeforeFirstRecord ==
    /\ stream_records # <<>> =>
          /\ metadata # "unset"
          /\ pc_extract = "returned"
    /\ pc_extract # "idle" =>
          /\ pulls >= 1
          /\ metadata # "unset"
    /\ pc_extract \notin {"idle", "returned"} =>
          /\ stream_records = <<>>
          /\ pc_stream \in {"extracting", "raised"}
    /\ (pc_extract = "raised" /\ pc_stream # "extracting") =>
          /\ pc_stream = "raised"
          /\ stream_raised = extract_raised
          /\ pulls = 1

\* The document was opened, a page could not be read and the error left the
\* generator.
C13_Witness ==
    /\ pc_stream = "raised"
    /\ extract_raised = PageFailure
    /\ page_num >= 2
    /\ stream_records = <<>>

\* C18: get_memory_usage never fails, so no caller is interrupted by a
\* monitoring read failure: neither the extraction nor the stream ends with
\* the error of a memory read.
C18_MonitorNeverInterrupts ==
    /\ extract_raised # PsutilError
    /\ stream_raised # PsutilError

----------------------------------------------------------------------------
(* memory_optimizer.py: check_memory_limit and cleanup_memory *)

SystemPercentLimit == 90     \* system_memory_percent > 90
ProcessLimitTenths == 9      \* max_memory_gb * 1024 * 0.9
MbPerGb == 1024

\* The configured ceilings: 3.5 GB and 2.0 GB, in tenths of a GB.
MemoryCeilings == {DefaultMaxMemoryGb, 20}

\* The readings of the memory: the process memory in MB around 90% of either
\* ceiling (1843.2 MB and 3225.6 MB), the system memory around 90%.
MemoryReadings ==
    [process_memory_mb : {1000, 1843, 1844, 3225, 3226},
     system_memory_percent : {50, 90, 91}]

\* Lines 70-78: check_memory_limit, given the reading of line 68. The
\* comparison process_memory_mb > max_memory_gb * 1024 * 0.9 is taken in
\* hundredths of a MB.
check_memory_limit(info, ceiling) ==
    IF info.process_memory_mb * 100 > ceiling * MbPerGb * ProcessLimitTenths
    THEN FALSE
    ELSE IF info.system_memory_percent > SystemPercentLimit
    THEN FALSE
    ELSE TRUE

InitCleanup ==
    /\ ChunksIdle
    /\ GenIdle
    /\ RunIdle
    /\ ExamIdle
    /\ GradeIdle
    /\ ExtractIdle
    /\ StreamIdle
    /\ GuiIdle
    /\ DialogIdle
    /\ CliIdle
    /\ force \in BOOLEAN
    /\ max_memory_gb \in MemoryCeilings
    /\ memory_info \in MemoryReadings
    /\ cuda_available \in BOOLEAN
    /\ gc_passes = 0
    /\ cache_releases = 0
    /\ cleanup_raised = NoError
    /\ pc_cleanup = "call"

\* Line 87: "if force or not self.check_memory_limit()": with force the limit
\* is not checked.
CleanupCall ==
    /\ pc_cleanup = "call"
    /\ pc_cleanup' = IF force THEN "collect" ELSE "check"
    /\ UNCHANGED <<force, max_memory_gb, memory_info, cuda_available,
                   gc_passes, cache_releases, cleanup_raised>>
    /\ UNCHANGED notCleanupVars

\* Lines 87, 68-78: check_memory_limit reads the memory; the error of a read
\* leaves cleanup_memory. Within the limits the call returns.
CleanupCheck ==
    /\ pc_cleanup = "check"
    /\ \E read \in MonitorReads :
          IF read = "raises"
          THEN /\ cleanup_raised' = PsutilError
               /\ pc_cleanup' = "raised"
          ELSE /\ UNCHANGED cleanup_raised
               /\ pc_cleanup' =
                      IF ~check_memory_limit(memory_info, max_memory_gb)
                      THEN "collect" ELSE "returned"
    /\ UNCHANGED <<force, max_memory_gb, memory_info, cuda_available,
                   gc_passes, cache_releases>>
    /\ UNCHANGED notCleanupVars

\* Lines 88-95: the garbage collection, and the release of the device cache
\* when there is a GPU.
CleanupCollect ==
    /\ pc_cleanup = "collect"
    /\ gc_passes' = gc_passes + 1
    /\ cache_releases' =
           IF cuda_available THEN cache_releases + 1 ELSE cache_releases
    /\ pc_cleanup' = "log"
    /\ UNCHANGED <<force, max_memory_gb, memory_info, cuda_available,
                   cleanup_raised>>
    /\ UNCHANGED notCleanupVars

\* Lines 98-99: the memory is read again for the log.
CleanupLog ==
    /\ pc_cleanup = "log"
    /\ \E read \in MonitorReads :
          IF read = "raises"
          THEN /\ cleanup_raised' = PsutilError
               /\ pc_cleanup' = "raised"
          ELSE /\ UNCHANGED cleanup_raised
               /\ pc_cleanup' = "returned"
    /\ UNCHANGED <<force, max_memory_gb, memory_info, cuda_available,
                   gc_passes, cache_releases>>
    /\ UNCHANGED notCleanupVars

NextCleanup ==
    \/ CleanupCall
    \/ CleanupCheck
    \/ CleanupCollect
    \/ CleanupLog

SpecCleanup == InitCleanup /\ [][NextCleanup]_vars

----------------------------------------------------------------------------
(* Claims about cleanup_memory *)

\* Under pressure: the process memory exceeds 90% of the ceiling or the
\* system utilization exceeds 90%.
UnderPressure ==
    \/ memory_info.process_memory_mb * 100 > max_memory_gb * 1024 * 9
    \/ memory_info.system_memory_percent > 90

\* C23: cleanup_memory(force) runs a garbage-collection pass if and only if
\* force is true or the memory is under pressure; with force false and
\* neither threshold exceeded it does nothing.
C23_CollectsIffForcedOrPressure ==
    pc_cleanup \in {"returned", "raised"} =>
        /\ gc_passes >= 1 <=> (force \/ UnderPressure)
        /\ (~force /\ ~UnderPressure) =>
              /\ pc_cleanup = "returned"
              /\ gc_passes = 0
              /\ cache_releases = 0

\* C23, when the reads of the memory succeed: the call returns, and it has
\* run one garbage-collection pass if force is true or the memory is under
\* pressure, and none otherwise.
C23_WhenReadsSucceed ==
    pc_cleanup = "returned" =>
        gc_passes = (IF force \/ UnderPressure THEN 1 ELSE 0)

----------------------------------------------------------------------------
(* gui.py: browse_file, on_model_changed, generate_questions on the main
   thread, and _generate_questions_thread on the worker threads *)

MaxGuiRecords == 2       \* most records a worker pulls

\* A call into Tk, or int() of the text of a spin box: it returns or raises.
TkCalls == {"returns", "raises"}

\* What next() of process_pdf_streaming gives.
PullOutcomes == {"record", "exhausted", "raises"}

EarlyIdle ==
    /\ ChunksIdle
    /\ GenIdle
    /\ RunIdle
    /\ ExamIdle
    /\ GradeIdle
    /\ ExtractIdle
    /\ StreamIdle

\* gui.py 119-138: __init__.
InitGui ==
    /\ EarlyIdle
    /\ CleanupIdle
    /\ DialogIdle
    /\ CliIdle
    /\ current_pdf_path = FALSE
    /\ processing = FALSE
    /\ model_var \in ModelNames
    /\ question_generator = NoGenerator
    /\ generated_by = 0
    /\ pc_worker = [w \in Workers |-> "unstarted"]
    /\ worker_model = [w \in Workers |-> "unset"]
    /\ worker_pulls = [w \in Workers |-> 0]
    /\ worker_error = [w \in Workers |-> "none"]

\* question_generator.py 260-263: unload_model sets the pipeline to None.
unload_model(generator) == [generator EXCEPT !.pipeline = FALSE]

\* question_generator.py 158-166: QuestionGenerator(model_name=...)
QuestionGenerator(name) == [model_name |-> name, pipeline |-> FALSE]

\* Lines 366-372: generate_questions goes on to start a worker.
accepts_request == current_pdf_path /\ ~processing

\* A faulty variant of line 442: the flag is left set.
processing_left_set == TRUE

\* Line 442: self.processing = False
processing_after_finally == FALSE

\* A worker thread is running from thread.start() to the end of its target.
Running(w) == pc_worker[w] \notin {"unstarted", "done"}

\* Lines 311-328: browse_file with a valid PDF chosen.
GuiBrowse ==
    /\ current_pdf_path' = TRUE
    /\ UNCHANGED <<processing, model_var, question_generator, generated_by,
                   pc_worker, worker_model, worker_pulls, worker_error>>
    /\ UNCHANGED notGuiVars

\* Lines 330-337: on_model_changed. unload_model ends with
\* cleanup_memory(force=True), whose error leaves the callback before line
\* 337.
GuiModelChanged ==
    /\ model_var' \in ModelNames
    /\ \E cleanup \in MonitorCalls :
          question_generator' =
              IF question_generator = NoGenerator THEN NoGenerator
              ELSE IF cleanup = "raises"
              THEN unload_model(question_generator)
              ELSE NoGenerator
    /\ UNCHANGED <<current_pdf_path, processing, generated_by, pc_worker,
                   worker_model, worker_pulls, worker_error>>
    /\ UNCHANGED notGuiVars

\* Lines 364-376: generate_questions; the thread started is the next one
\* that was never started.
GuiGenerate ==
    /\ \E w \in Workers :
          /\ pc_worker[w] = "unstarted"
          /\ \A v \in 1..(w - 1) : pc_worker[v] # "unstarted"
          /\ pc_worker' = IF accepts_request
                          THEN [pc_worker EXCEPT ![w] = "started"]
                          ELSE pc_worker
    /\ UNCHANGED <<current_pdf_path, processing, model_var,
                   question_generator, generated_by, worker_model,
                   worker_pulls, worker_error>>
    /\ UNCHANGED notGuiVars

\* The worker leaves the try block with an exception: its locals are gone.
Raise(w, e) ==
    /\ pc_worker' = [pc_worker EXCEPT ![w] = "except"]
    /\ worker_error' = [worker_error EXCEPT ![w] = e]
    /\ worker_model' = [worker_model EXCEPT ![w] = "unset"]
    /\ worker_pulls' = [worker_pulls EXCEPT ![w] = 0]

\* The worker goes on within the try block.
Goto(w, label) ==
    /\ pc_worker' = [pc_worker EXCEPT ![w] = label]
    /\ UNCHANGED worker_error

\* Lines 380-382.
WorkerBegin(w) ==
    /\ pc_worker[w] = "started"
    /\ processing' = TRUE
    /\ \E ui \in TkCalls :
          IF ui = "raises"
          THEN Raise(w, "error")
          ELSE Goto(w, "params") /\ UNCHANGED <<worker_model, worker_pulls>>
    /\ UNCHANGED <<current_pdf_path, model_var, question_generator,
                   generated_by>>
    /\ UNCHANGED notGuiVars

\* Lines 385-387.
WorkerParams(w) ==
    /\ pc_worker[w] = "params"
    /\ \E parsed \in TkCalls :
          IF parsed = "raises"
          THEN Raise(w, "error")
          ELSE /\ Goto(w, "ensure")
               /\ worker_model' = [worker_model EXCEPT ![w] = model_var]
               /\ UNCHANGED worker_pulls
    /\ UNCHANGED <<current_pdf_path, processing, model_var,
                   question_generator, generated_by>>
    /\ UNCHANGED notGuiVars

\* Lines 390-399: the generator is kept, or the old one is unloaded and a new
\* one is created.
WorkerEnsure(w) ==
    /\ pc_worker[w] = "ensure"
    /\ IF question_generator = NoGenerator
          \/ question_generator.model_name # worker_model[w]
       THEN \E cleanup \in MonitorCalls :
               IF question_generator # NoGenerator /\ cleanup = "raises"
               THEN /\ question_generator' = unload_model(question_generator)
                    /\ Raise(w, "error")
               ELSE /\ question_generator' = QuestionGenerator(worker_model[w])
                    /\ Goto(w, "load")
                    /\ UNCHANGED <<worker_model, worker_pulls>>
       ELSE /\ Goto(w, "stream")
            /\ UNCHANGED <<question_generator, worker_model, worker_pulls>>
    /\ UNCHANGED <<current_pdf_path, processing, model_var, generated_by>>
    /\ UNCHANGED notGuiVars

\* Lines 401-402: self.question_generator.load_model()
WorkerLoad(w) ==
    /\ pc_worker[w] = "load"
    /\ IF question_generator = NoGenerator
       THEN /\ Raise(w, "NoneType.load_model")
            /\ UNCHANGED question_generator
       ELSE \E loaded \in BOOLEAN :
               IF loaded
               THEN /\ question_generator' =
                          [question_generator EXCEPT !.pipeline = TRUE]
                    /\ Goto(w, "stream")
                    /\ UNCHANGED <<worker_model, worker_pulls>>
               ELSE /\ Raise(w, "error")
                    /\ UNCHANGED question_generator
    /\ UNCHANGED <<current_pdf_path, processing, model_var, generated_by>>
    /\ UNCHANGED notGuiVars

\* Lines 404-411: the call of process_pdf_streaming, whose monitor reads the
\* memory.
WorkerStream(w) ==
    /\ pc_worker[w] = "stream"
    /\ \E monitor \in MonitorCalls :
          IF ~current_pdf_path \/ monitor = "raises"
          THEN Raise(w, "error")
          ELSE Goto(w, "pull") /\ UNCHANGED <<worker_model, worker_pulls>>
    /\ UNCHANGED <<current_pdf_path, processing, model_var,
                   question_generator, generated_by>>
    /\ UNCHANGED notGuiVars

\* Line 411: the next record is pulled.
WorkerPull(w) ==
    /\ pc_worker[w] = "pull"
    /\ \E pulled \in PullOutcomes :
          CASE pulled = "record" ->
                  /\ worker_pulls[w] < MaxGuiRecords
                  /\ worker_pulls' =
                         [worker_pulls EXCEPT ![w] = worker_pulls[w] + 1]
                  /\ Goto(w, "generate")
                  /\ UNCHANGED worker_model
            [] pulled = "exhausted" ->
                  /\ Goto(w, "store")
                  /\ UNCHANGED <<worker_model, worker_pulls>>
            [] pulled = "raises" -> Raise(w, "error")
    /\ UNCHANGED <<current_pdf_path, processing, model_var,
                   question_generator, generated_by>>
    /\ UNCHANGED notGuiVars

\* Lines 412-429: self.question_generator.generate_questions_from_text(...)
\* and the test of the total.
WorkerGenerate(w) ==
    /\ pc_worker[w] = "generate"
    /\ IF question_generator = NoGenerator
       THEN Raise(w, "NoneType.generate_questions_from_text")
       ELSE \E monitor \in MonitorCalls, reached \in BOOLEAN :
               IF monitor = "raises"
               THEN Raise(w, "error")
               ELSE /\ Goto(w, IF reached THEN "store" ELSE "pull")
                    /\ UNCHANGED <<worker_model, worker_pulls>>
    /\ UNCHANGED <<current_pdf_path, processing, model_var,
                   question_generator, generated_by>>
    /\ UNCHANGED notGuiVars

\* Lines 431-434: the result is stored and the display is scheduled.
WorkerStore(w) ==
    /\ pc_worker[w] = "store"
    /\ generated_by' = w
    /\ \E after \in TkCalls :
          IF after = "raises"
          THEN Raise(w, "error")
          ELSE /\ Goto(w, "finally")
               /\ worker_model' = [worker_model EXCEPT ![w] = "unset"]
               /\ worker_pulls' = [worker_pulls EXCEPT ![w] = 0]
    /\ UNCHANGED <<current_pdf_path, processing, model_var,
                   question_generator>>
    /\ UNCHANGED notGuiVars

\* Lines 436-439: the handler; what it raises itself leaves through finally
\* as well.
WorkerExcept(w) ==
    /\ pc_worker[w] = "except"
    /\ Goto(w, "finally")
    /\ UNCHANGED <<current_pdf_path, processing, model_var,
                   question_generator, generated_by, worker_model,
                   worker_pulls>>
    /\ UNCHANGED notGuiVars

\* Lines 441-443.
WorkerFinally(w) ==
    /\ pc_worker[w] = "finally"
    /\ processing' = processing_after_finally
    /\ Goto(w, "done")
    /\ UNCHANGED <<current_pdf_path, model_var, question_generator,
                   generated_by, worker_model, worker_pulls>>
    /\ UNCHANGED notGuiVars

\* The steps of worker thread w.
Worker(w) ==
    \/ WorkerBegin(w)
    \/ WorkerParams(w)
    \/ WorkerEnsure(w)
    \/ WorkerLoad(w)
    \/ WorkerStream(w)
    \/ WorkerPull(w)
    \/ WorkerGenerate(w)
    \/ WorkerStore(w)
    \/ WorkerExcept(w)
    \/ WorkerFinally(w)

NextGui ==
    \/ GuiBrowse
    \/ GuiModelChanged
    \/ GuiGenerate
    \/ \E w \in Workers : Worker(w)

SpecGui == InitGui /\ [][NextGui]_vars

\* A started thread is scheduled until its target returns; the user is not
\* obliged to do anything.
SpecGuiFair == SpecGui /\ \A w \in Workers : WF_vars(Worker(w))

----------------------------------------------------------------------------
(* Claims about the GUI *)

\* C24: at most one background generation worker is running at any time: a
\* generate_questions request issued while a run is in progress, in any
\* interleaving with the start of the worker, does not start a second worker.
C24_AtMostOneWorker ==
    Cardinality({w \in Workers : Running(w)}) <= 1

\* C25: while a worker is running the front-end does not change the question
\* generator the worker uses, and no worker calls generate_questions_from_text
\* on a None generator.
C25_GeneratorKeptForWorker ==
    /\ [][((\E w \in Workers : Running(w)) /\ pc_worker' = pc_worker) =>
             question_generator' = question_generator]_vars
    /\ [](\A w \in Workers :
             worker_error[w] # "NoneType.generate_questions_from_text")

\* C26: every started worker eventually resets the processing flag to False,
\* whether the run succeeds or fails, and then a new generation request is
\* accepted.
C26_WorkerResetsFlag ==
    /\ \A w \in Workers : Running(w) ~> (pc_worker[w] = "done")
    /\ [][\A w \in Workers :
             (pc_worker[w] # "done" /\ pc_worker'[w] = "done") =>
                 (processing' = FALSE /\ accepts_request')]_vars

\* The only worker started has ended after the model failed to load or
\* another error: the flag is reset and a request would start a worker.
C26_Witness ==
    /\ pc_worker[1] = "done"
    /\ worker_error[1] = "error"
    /\ generated_by = 0
    /\ pc_worker[2] = "unstarted"
    /\ ~processing
    /\ accepts_request

----------------------------------------------------------------------------
(* gui.py: the exam dialog: show_exam, display_exam_question,
   next_exam_question, finish_exam *)

MaxDialogItems == 2      \* most generated questions, and items of an exam

\* The texts of the radio buttons of an item.
OptionTexts == {SA, SB}

\* The generators the main window may hold when the dialog is asked for.
DialogGenerators ==
    {NoGenerator} \cup
        {[model_name |-> "t5-small", pipeline |-> loaded] :
            loaded \in BOOLEAN}

InitDialog ==
    /\ EarlyIdle
    /\ CleanupIdle
    /\ CliIdle
    /\ current_pdf_path \in BOOLEAN
    /\ processing = FALSE
    /\ model_var = "t5-small"
    /\ question_generator \in DialogGenerators
    /\ generated_by = 0
    /\ pc_worker = [w \in Workers |-> "unstarted"]
    /\ worker_model = [w \in Workers |-> "unset"]
    /\ worker_pulls = [w \in Workers |-> 0]
    /\ worker_error = [w \in Workers |-> "none"]
    /\ generated_questions_len \in 0..MaxDialogItems
    /\ gui_exam = <<>>
    /\ current_exam_index = 0
    /\ user_exam_answers = <<>>
    /\ exam_option_var = ""
    /\ visible_button = "none"
    /\ exam_result = NoGrade
    /\ dialog_error = "none"
    /\ pc_dialog = "main"

\* Line 63: q = self.exam[self.current_exam_index] raises IndexError when the
\* index is not a position of the list (an index from -len on counts from the
\* end).
IndexExists(items, index) == -Len(items) <= index /\ index < Len(items)

\* Lines 57-78: display_exam_question, by what it leaves: the error of line
\* 63 with no button packed, or a new empty StringVar and the button of lines
\* 73-78.
display_exam_question(items, index, packed) ==
    IF ~IndexExists(items, index)
    THEN [error |-> "IndexError", button |-> packed]
    ELSE [error |-> "none",
          button |-> IF index < Len(items) - 1 THEN "next" ELSE "submit"]

\* Lines 28-55: show_exam. generate_multiple_choice_exam returns an exam of
\* num_questions = len(self.generated_questions) items or fewer.
DialogShow ==
    /\ pc_dialog = "main"
    /\ generated_questions_len > 0
    /\ question_generator # NoGenerator
    /\ current_pdf_path
    /\ \E items \in SeqsUpTo(GradeItems, generated_questions_len) :
          LET shown == display_exam_question(items, 0, "none")
          IN /\ gui_exam' = items
             /\ user_exam_answers' = <<>>
             /\ current_exam_index' = 0
             /\ exam_option_var' = ""
             /\ visible_button' = shown.button
             /\ dialog_error' = shown.error
             /\ pc_dialog' = IF shown.error = "none" THEN "exam" ELSE "error"
    /\ UNCHANGED <<generated_questions_len, exam_result>>
    /\ UNCHANGED notDialogVars

\* The user selects an option of the question on display.
DialogSelect ==
    /\ pc_dialog = "exam"
    /\ exam_option_var' \in OptionTexts
    /\ UNCHANGED <<generated_questions_len, gui_exam, current_exam_index,
                   user_exam_answers, visible_button, exam_result,
                   dialog_error, pc_dialog>>
    /\ UNCHANGED notDialogVars

\* Lines 80-89: next_exam_question, the command of the "Siguiente" button.
DialogNext ==
    /\ pc_dialog = "exam"
    /\ visible_button = "next"
    /\ exam_option_var # ""
    /\ LET shown == display_exam_question(gui_exam, current_exam_index + 1,
                                          visible_button)
       IN /\ user_exam_answers' = Append(user_exam_answers, exam_option_var)
          /\ current_exam_index' = current_exam_index + 1
          /\ exam_option_var' = IF shown.error = "none" THEN ""
                                ELSE exam_option_var
          /\ visible_button' = shown.button
          /\ dialog_error' = shown.error
          /\ pc_dialog' = IF shown.error = "none" THEN "exam" ELSE "error"
    /\ UNCHANGED <<generated_questions_len, gui_exam, exam_result>>
    /\ UNCHANGED notDialogVars

\* Lines 91-109: finish_exam, the command of the "Finalizar examen" button.
DialogFinish ==
    /\ pc_dialog = "exam"
    /\ visible_button = "submit"
    /\ exam_option_var # ""
    /\ user_exam_answers' = Append(user_exam_answers, exam_option_var)
    /\ IF question_generator = NoGenerator
       THEN UNCHANGED <<visible_button, exam_result, pc_dialog>>
       ELSE /\ exam_result' =
                   grade_multiple_choice_exam(gui_exam, user_exam_answers')
            /\ visible_button' = "none"
            /\ pc_dialog' = "result"
    /\ UNCHANGED <<generated_questions_len, gui_exam, current_exam_index,
                   exam_option_var, dialog_error>>
    /\ UNCHANGED notDialogVars

NextDialog ==
    \/ DialogShow
    \/ DialogSelect
    \/ DialogNext
    \/ DialogFinish

SpecDialog == InitDialog /\ [][NextDialog]_vars

----------------------------------------------------------------------------
(* Claims about the exam dialog *)

\* C27: for every exam returned by generate_multiple_choice_exam,
\* current_exam_index stays within 0..len(exam)-1 when a question is
\* displayed, the number of recorded answers equals current_exam_index before
\* each answer is stored, and when finish_exam grades, the number of recorded
\* user answers equals the number of exam items.
C27_IndexAndAnswersInStep ==
    /\ dialog_error = "none"
    /\ pc_dialog = "exam" =>
          /\ 0 <= current_exam_index
          /\ current_exam_index <= Len(gui_exam) - 1
          /\ Len(user_exam_answers) = current_exam_index
    /\ pc_dialog = "result" =>
          /\ Len(user_exam_answers) = Len(gui_exam)
          /\ exam_result.total = Len(user_exam_answers)

\* C27, for the exams that have an item: a question on display has its index
\* within 0..len(exam)-1 and as many answers recorded as its index, and the
\* graded exam has an answer for every item.
C27_WhenExamHasItems ==
    (pc_dialog # "main" /\ gui_exam # <<>>) =>
        /\ dialog_error = "none"
        /\ pc_dialog = "exam" =>
              /\ 0 <= current_exam_index
              /\ current_exam_index <= Len(gui_exam) - 1
              /\ Len(user_exam_answers) = current_exam_index
        /\ pc_dialog = "result" =>
              /\ Len(user_exam_answers) = Len(gui_exam)
              /\ exam_result.total = Len(user_exam_answers)

----------------------------------------------------------------------------
(* main.py: generate_questions_cli, from load_model to the finally block *)

MaxCliQuestions == 2     \* largest num_questions asked of the command line
MaxCliRecords == 2       \* most records of the stream

\* The ways a call of the try block ends: it returns, an Exception leaves it,
\* SystemExit leaves it (sys.exit), or the user interrupts it.
CliCalls == {"returns", "Exception", "SystemExit", "KeyboardInterrupt"}

InitCli ==
    /\ EarlyIdle
    /\ CleanupIdle
    /\ GuiIdle
    /\ DialogIdle
    /\ cli_num_questions \in 0..MaxCliQuestions
    /\ cli_output_path \in BOOLEAN
    /\ cli_chunk_count = 0
    /\ cli_all_questions = 0
    /\ cli_pipeline = FALSE
    /\ cli_unloads = 0
    /\ cli_final_cleanups = 0
    /\ cli_gc_passes = 0
    /\ cli_path = "none"
    /\ cli_pending = "none"
    /\ pc_cli = "load"

\* Line 213: questions_per_chunk = min(3, max(1, num_questions // 5)).
cli_questions_per_chunk ==
    Min(MaxQuestionsPerChunk,
        Max(1, cli_num_questions \div QuestionsPerChunkDivisor))

\* Leaving the try block (lines 203-262) for the finally block, with the
\* exception in flight if there is one.
LeaveTry(path, pending) ==
    /\ cli_path' = path
    /\ cli_pending' = pending
    /\ pc_cli' = "finally"

\* Lines 264-266: "except Exception" prints the error and calls sys.exit(1),
\* whose SystemExit passes through the finally block.
ToExcept(path) ==
    /\ cli_path' = path
    /\ cli_pending' = "Exception"
    /\ pc_cli' = "except"

\* Lines 191-201: load_model; sys.exit(1) before the try block if it fails.
CliLoad ==
    /\ pc_cli = "load"
    /\ \E loaded \in BOOLEAN :
          /\ cli_pipeline' = loaded
          /\ pc_cli' = IF loaded THEN "pull" ELSE "left"
          /\ cli_pending' = IF loaded THEN "none" ELSE "SystemExit"
          /\ cli_path' = IF loaded THEN "none" ELSE "load_failed"
    /\ UNCHANGED <<cli_num_questions, cli_output_path, cli_chunk_count,
                   cli_all_questions, cli_unloads, cli_final_cleanups,
                   cli_gc_passes>>
    /\ UNCHANGED notCliVars

\* Lines 206-210: the for statement asks process_pdf_streaming for a record.
CliPull ==
    /\ pc_cli = "pull"
    /\ \/ /\ cli_chunk_count < MaxCliRecords
          /\ cli_chunk_count' = cli_chunk_count + 1
          /\ pc_cli' = "generate"
          /\ UNCHANGED <<cli_path, cli_pending>>
       \/ /\ pc_cli' = "save"
          /\ UNCHANGED <<cli_chunk_count, cli_path, cli_pending>>
       \/ /\ ToExcept("extraction_error")
          /\ UNCHANGED cli_chunk_count
       \/ /\ LeaveTry("interrupt", "KeyboardInterrupt")
          /\ UNCHANGED cli_chunk_count
    /\ UNCHANGED <<cli_num_questions, cli_output_path, cli_all_questions,
                   cli_pipeline, cli_unloads, cli_final_cleanups,
                   cli_gc_passes>>
    /\ UNCHANGED notCliVars

\* Lines 213-227: the generator call, the extension of all_questions and the
\* test of the limit.
CliGenerate ==
    /\ pc_cli = "generate"
    /\ \/ /\ \E k \in 0..cli_questions_per_chunk :
                LET total == cli_all_questions + k
                IN IF total >= cli_num_questions
                   THEN /\ cli_all_questions' = cli_num_questions
                        /\ pc_cli' = "save"
                   ELSE /\ cli_all_questions' = total
                        /\ pc_cli' = "pull"
          /\ UNCHANGED <<cli_path, cli_pending>>
       \/ /\ ToExcept("generation_error")
          /\ UNCHANGED cli_all_questions
       \/ /\ LeaveTry("interrupt", "KeyboardInterrupt")
          /\ UNCHANGED cli_all_questions
    /\ UNCHANGED <<cli_num_questions, cli_output_path, cli_chunk_count,
                   cli_pipeline, cli_unloads, cli_final_cleanups,
                   cli_gc_passes>>
    /\ UNCHANGED notCliVars

\* Lines 229-262: the questions are printed and saved. save_questions_to_file
\* returns, raises (an OSError, say) or exits the process (sys.exit(1) of
\* save_questions_to_pdf); an interrupt of the prompt is caught at line 261,
\* an interrupt of the printing is not.
CliSave ==
    /\ pc_cli = "save"
    /\ \/ /\ cli_output_path \/ cli_all_questions > 0
          /\ \E save \in CliCalls :
                CASE save = "returns" -> LeaveTry("normal", "none")
                  [] save = "Exception" -> ToExcept("save_error")
                  [] save = "SystemExit" -> LeaveTry("save_exit", "SystemExit")
                  [] OTHER -> LeaveTry("interrupt", "KeyboardInterrupt")
       \/ /\ ~cli_output_path
          /\ \E prompt \in {"declined", "interrupted", "none"} :
                /\ prompt = "none" <=> cli_all_questions = 0
                /\ LeaveTry(IF prompt = "interrupted" THEN "prompt_interrupt"
                            ELSE "normal", "none")
    /\ UNCHANGED <<cli_num_questions, cli_output_path, cli_chunk_count,
                   cli_all_questions, cli_pipeline, cli_unloads,
                   cli_final_cleanups, cli_gc_passes>>
    /\ UNCHANGED notCliVars

\* Lines 264-266.
CliExcept ==
    /\ pc_cli = "except"
    /\ cli_pending' = "SystemExit"
    /\ pc_cli' = "finally"
    /\ UNCHANGED <<cli_num_questions, cli_output_path, cli_chunk_count,
                   cli_all_questions, cli_pipeline, cli_unloads,
                   cli_final_cleanups, cli_gc_passes, cli_path>>
    /\ UNCHANGED notCliVars

\* The position after question_generator.unload_model() of line 271.
after_unload == "cleanup"
after_unload_leaves == "left"

\* Lines 268-271 and question_generator.py 260-263: unload_model sets the
\* pipeline to None and calls cleanup_memory(force=True), which collects and
\* then reads the memory for its log; the error of that read leaves
\* unload_model and the finally block.
CliUnload ==
    /\ pc_cli = "finally"
    /\ cli_unloads' = cli_unloads + 1
    /\ cli_pipeline' = FALSE
    /\ cli_gc_passes' = cli_gc_passes + 1
    /\ \E read \in MonitorReads :
          IF read = "raises"
          THEN /\ cli_pending' = "psutil.Error"
               /\ pc_cli' = "left"
          ELSE /\ UNCHANGED cli_pending
               /\ pc_cli' = after_unload
    /\ UNCHANGED <<cli_num_questions, cli_output_path, cli_chunk_count,
                   cli_all_questions, cli_final_cleanups, cli_path>>
    /\ UNCHANGED notCliVars

\* Line 272: memory_optimizer.cleanup_memory(force=True); then the exception
\* in flight, if any, leaves the function.
CliCleanup ==
    /\ pc_cli = "cleanup"
    /\ cli_final_cleanups' = cli_final_cleanups + 1
    /\ cli_gc_passes' = cli_gc_passes + 1
    /\ \E read \in MonitorReads :
          cli_pending' = IF read = "raises" THEN "psutil.Error"
                         ELSE cli_pending
    /\ pc_cli' = "left"
    /\ UNCHANGED <<cli_num_questions, cli_output_path, cli_chunk_count,
                   cli_all_questions, cli_pipeline, cli_unloads, cli_path>>
    /\ UNCHANGED notCliVars

NextCli ==
    \/ CliLoad
    \/ CliPull
    \/ CliGenerate
    \/ CliSave
    \/ CliExcept
    \/ CliUnload
    \/ CliCleanup

SpecCli == InitCli /\ [][NextCli]_vars

\* The interpreter keeps running the function: a statement that can run does.
SpecCliFair == SpecCli /\ WF_vars(NextCli)

----------------------------------------------------------------------------
(* Claims about generate_questions_cli *)

\* The model is loaded and the function has not been left.
InGenerationPhase == pc_cli \in {"pull", "generate", "save", "except"}

\* C28: once the model has been loaded, unload_model and the forced memory
\* cleanup of the finally block both run on every exit path of the generation
\* phase: normal completion, an extraction or generation error, a save
\* failure that exits the process, and a user interrupt.
C28_UnloadAndCleanupOnEveryExit ==
    /\ InGenerationPhase ~> (cli_unloads = 1 /\ cli_final_cleanups = 1)
    /\ [](pc_cli = "left" /\ cli_path # "load_failed"
             => cli_unloads = 1 /\ cli_final_cleanups = 1)

\* C28, the part that every exit path keeps: unload_model is called once, the
\* pipeline is released and a forced garbage-collection pass has run.
C28_UnloadOnEveryExit ==
    /\ InGenerationPhase ~>
          (cli_unloads = 1 /\ ~cli_pipeline /\ cli_gc_passes >= 1)
    /\ [](pc_cli = "left" /\ cli_path # "load_failed"
             => cli_unloads = 1 /\ ~cli_pipeline /\ cli_gc_passes >= 1)

====
